---- MODULE Spec2Model ----
(***************************************************************************)
(* Verification model of the google-maps-scraper extraction and fan-out    *)
(* pipeline: runners (file, web, lambda), the Completion Monitor           *)
(* (package exiter), the Dedup Set (package deduper), the job variants     *)
(* (seed search job, PlaceJob, EmailExtractJob), the page-state extractor  *)
(* (PlaceJob.ExtractJSON) and the scroll paginator                         *)
(* (scrollWithBrowserless).                                                *)
(*                                                                         *)
(* Seven specifications share the module:                                  *)
(*   Spec        - runs of the pipeline, one after another in one process  *)
(*   SpecExtract - ExtractJSON on every scripted sequence of evaluations   *)
(*   SpecScroll  - scrollWithBrowserless on every scripted height sequence *)
(*   SpecProcess - PlaceJob.Process, then EmailExtractJob.Process of its   *)
(*                 child, on Entry records                                 *)
(*   SpecConfig  - configuration and start-up: ParseConfig,                *)
(*                 Config.ValidateBrowserlessConfigurationWithFallback,    *)
(*                 installer.Run, setupBrowsersAndDriver                   *)
(*   SpecURL     - BuildBrowserlessWebSocketURL and the lines logged about *)
(*                 the WebSocket URL                                       *)
(*   SpecWeb     - webrunner.scrapeJob and the persisted job status        *)
(***************************************************************************)
EXTENDS Integers, Sequences, FiniteSets, TLC

(***************************************************************************)
(* Bounds of the model.                                                    *)
(***************************************************************************)
MaxRuns == 2
MaxSeeds == 2
MaxLinks == 1
MaxPlaces == 1

Nil == 0

Runs == 1..MaxRuns
Links == 1..MaxLinks
Kinds == {"file", "web", "lambda"}

VARIABLES
    run,        \* index of the current run (0: none yet)
    pc,         \* position of the current run's runner function
    runKind,    \* runner kind of the current run
    runInst,    \* instances the current run created: [dedup, mon], Nil for none
    retired,    \* instances created by the runs that have returned
    nextInst,   \* instances allocated so far by deduper.New / exiter.New
    seedCount,  \* len(seedJobs) of the current run
    ctxDone,    \* the run's cancellation context is done
    mons,       \* live Completion Monitor instances, by instance id
    dedups,     \* live Dedup Set instances, by instance id
    jobs,       \* jobs of the current run, by job id
    \* ExtractJSON
    xPc,        \* position in ExtractJSON
    xAttempt,   \* the loop variable attempt
    xLast,      \* what the last page.Evaluate delivered
    xLog,       \* how each attempt so far ended
    xResult,    \* the returned payload: <<text>>, or <<>> for nil
    xErr,       \* the returned error is non-nil
    xSleeps,    \* calls of time.Sleep(retryDelay) so far
    xEvals,     \* calls of page.Evaluate so far
    xCancel,    \* the run's ctx is done
    \* scrollWithBrowserless
    sPc,        \* position in scrollWithBrowserless
    sScript,    \* the heights the feed element takes, scroll after scroll
    sMaxDepth,  \* the parameter maxDepth
    sI,         \* the loop variable i
    sCnt,       \* cnt
    sCur,       \* currentScrollHeight
    sWait,      \* waitTime, in thousandths of a millisecond
    sRetry,     \* the loop variable retry
    sEvals,     \* calls of page.Evaluate so far
    sOk,        \* calls of page.Evaluate that returned no error
    sSleeps,    \* calls of time.Sleep(5 * time.Second) so far
    sWaits,     \* calls of page.WaitForTimeout so far
    sRet,       \* the returned int: <<n>>, or <<>> before the return
    sErr,       \* the returned error: "none" for nil
    sCancel,    \* ctx is done
    sCancelCnt, \* cnt at the moment ctx became done
    \* single calls: PlaceJob.Process and EmailExtractJob.Process of its child,
    \* Config.ValidateBrowserlessConfigurationWithFallback
    pCall,      \* the call made last: "none", "place", "email" or "validate"
    pIn,        \* its receiver and its inputs
    pOut        \* what it returned

pipeVars == <<run, pc, runKind, runInst, retired, nextInst, seedCount, ctxDone, mons, dedups, jobs>>
extractVars == <<xPc, xAttempt, xLast, xLog, xResult, xErr, xSleeps, xEvals, xCancel>>
scrollVars ==
    <<sPc, sScript, sMaxDepth, sI, sCnt, sCur, sWait, sRetry, sEvals, sOk, sSleeps, sWaits,
      sRet, sErr, sCancel, sCancelCnt>>
procVars == <<pCall, pIn, pOut>>
vars == <<pipeVars, extractVars, scrollVars, procVars>>

(***************************************************************************)
(* Completion Monitor (package exiter; its source is not part of src/, it  *)
(* is modelled from spec.md section 4.3).                                  *)
(***************************************************************************)
NewExiter ==
    [state |-> "Idle", expected |-> 0, completed |-> 0, cancelSet |-> FALSE,
     goroutine |-> FALSE, stops |-> 0, cause |-> "none"]

\* signal run cancellation: the transition to Stopped, taken at most once
SignalStopped(m, why) ==
    IF m.state = "Stopped" THEN m
    ELSE [m EXCEPT !.state = "Stopped", !.stops = @ + 1, !.cause = why]

SetSeedCount(m, n) == [m EXCEPT !.expected = n, !.state = "Running"]

SetCancelFunc(m) == [m EXCEPT !.cancelSet = TRUE]

\* a job-emitted event: n child jobs registered
IncrPlacesFound(m, n) == [m EXCEPT !.expected = @ + n]

\* a job-completed event; completion is detected synchronously
IncrCompleted(m, n) ==
    LET m2 == [m EXCEPT !.completed = @ + n]
    IN  IF m2.completed = m2.expected THEN SignalStopped(m2, "complete") ELSE m2

IncrSeedCompleted(m, n) == IncrCompleted(m, n)

IncrPlacesCompleted(m, n) == IncrCompleted(m, n)

(***************************************************************************)
(* Dedup Set (package deduper; its source is not part of src/, it is       *)
(* modelled from spec.md section 4.2): an atomic check-and-set.            *)
(***************************************************************************)
NewDeduper ==
    [seen |-> {}, calls |-> [l \in Links |-> 0], trues |-> [l \in Links |-> 0]]

\* mutant: the identity is never found present
tryClaimResultAlways(d, l) == TRUE

tryClaimResult(d, l) == l \notin d.seen

tryClaim(d, l) ==
    [d EXCEPT !.seen = @ \cup {l},
              !.calls[l] = @ + 1,
              !.trues[l] = IF tryClaimResult(d, l) THEN @ + 1 ELSE @]

(***************************************************************************)
(* Jobs.                                                                   *)
(***************************************************************************)
SeedId(i) == <<"seed", i, 0>>
PlaceId(i, l) == <<"place", i, l>>
EmailId(i, l) == <<"email", i, l>>

IdsOf(kind) == {j \in DOMAIN jobs : j[1] = kind}

NewJob(m, d) ==
    [st |-> "queued", mon |-> m, dedup |-> d, out |-> "none"]

\* runner.CreateSeedJobs: n seed jobs, each given the dedup and the monitor
CreateSeedJobs(n, d, m) == [j \in {SeedId(i) : i \in 1..n} |-> NewJob(m, d)]

(***************************************************************************)
(* PlaceJob.Process (src/gmaps/place.go:66-160) as a function of what the  *)
(* response and the job hold.  monitorCalls counts the calls the function  *)
(* makes on j.ExitMonitor; emailOpts is the monitor handed to NewEmailJob. *)
(***************************************************************************)
PlaceInputs ==
    [metaOk : BOOLEAN, parseOk : BOOLEAN, extraReviews : BOOLEAN, moreReviews : BOOLEAN,
     docIsPage : BOOLEAN, extractEmail : BOOLEAN, websiteValid : BOOLEAN]

PlaceResult(out, child) ==
    [out |-> out, child |-> child, monitorCalls |-> 0, emailOpts |-> Nil]

PlaceJobProcess(in) ==
    IF ~in.metaOk THEN PlaceResult("error", FALSE)
    ELSE IF ~in.parseOk THEN PlaceResult("error", FALSE)
    ELSE IF in.extraReviews /\ in.moreReviews /\ ~in.docIsPage
         THEN PlaceResult("entry", FALSE)
    ELSE IF in.extractEmail /\ in.websiteValid THEN PlaceResult("entry", TRUE)
    ELSE PlaceResult("entry", FALSE)

\* what PlaceJob.Process can return, over all inputs
PlaceResults == {PlaceJobProcess(in) : in \in PlaceInputs}

(***************************************************************************)
(* EmailExtractJob.Process (src/unnamed/part_009:59-93).  The deferred     *)
(* call at lines 65-69 reaches the monitor only when the job holds one.    *)
(***************************************************************************)
EmailInputs == [fetchErr : BOOLEAN, docOk : BOOLEAN]

EmailJobProcess(jobMon, in) ==
    [out |-> "entry", child |-> FALSE,
     emailsSet |-> ~in.fetchErr /\ in.docOk,
     monitorCalls |-> IF jobMon # Nil THEN 1 ELSE 0]

(***************************************************************************)
(* Runners.                                                                *)
(***************************************************************************)
\* mutant: a process-wide singleton instead of a fresh object
NewInstanceSingleton(allocated) == IF allocated % 2 = 0 THEN 1 ELSE 2

\* deduper.New() and exiter.New() return a fresh object on every call
NewInstance(allocated) == allocated + 1

CanStartRun == pc \in {"idle", "returned"} /\ run < MaxRuns

\* the dedup argument each runner passes to CreateSeedJobs
DedupArg(kind, d) == IF kind = "lambda" THEN Nil ELSE d

BeginRun(kind, n) ==
    LET dId == IF kind = "lambda" THEN Nil ELSE NewInstance(nextInst)
        mId == IF kind = "lambda" THEN NewInstance(nextInst) ELSE NewInstance(dId)
    IN  /\ CanStartRun
        /\ run' = run + 1
        /\ runKind' = kind
        /\ runInst' = [dedup |-> dId, mon |-> mId]
        /\ retired' = retired \cup ({runInst.dedup, runInst.mon} \ {Nil})
        /\ nextInst' = mId
        /\ seedCount' = n
        /\ ctxDone' = FALSE
        /\ mons' = (mId :> NewExiter)
        /\ dedups' = IF dId = Nil THEN <<>> ELSE (dId :> NewDeduper)
        /\ jobs' = CreateSeedJobs(n, DedupArg(kind, dId), mId)
        /\ pc' = "created"
        /\ UNCHANGED <<extractVars, scrollVars, procVars>>

\* fileRunner.Run: deduper.New, exiter.New, CreateSeedJobs
FileRunCreate(n) == BeginRun("file", n)

\* webrunner.scrapeJob: deduper.New, exiter.New, CreateSeedJobs
WebScrapeJobCreate(n) == BeginRun("web", n)

\* lambdaAwsRunner.handler: exiter.New, CreateSeedJobs with a nil dedup
LambdaHandlerCreate(n) == BeginRun("lambda", n)

CurKind == runKind
CurMon == runInst.mon
CurDedup == runInst.dedup

\* webrunner.scrapeJob with no seed job: the monitor and the scraper are skipped
WebScrapeJobNoSeeds ==
    /\ pc = "created" /\ CurKind = "web" /\ seedCount = 0
    /\ pc' = "returned"
    /\ UNCHANGED <<run, runKind, runInst, retired, nextInst, seedCount, ctxDone, mons, dedups, jobs>>
    /\ UNCHANGED <<extractVars, scrollVars, procVars>>

RunSetSeedCount ==
    /\ pc = "created"
    /\ CurKind = "web" => seedCount > 0
    /\ mons' = [mons EXCEPT ![CurMon] = SetSeedCount(@, seedCount)]
    /\ pc' = "seeded"
    /\ UNCHANGED <<run, runKind, runInst, retired, nextInst, seedCount, ctxDone, dedups, jobs>>
    /\ UNCHANGED <<extractVars, scrollVars, procVars>>

\* mutant: the cancel function is not installed before the monitor starts
RunSetCancelFuncOmitted ==
    /\ pc = "seeded"
    /\ pc' = "cancelset"
    /\ UNCHANGED <<run, runKind, runInst, retired, nextInst, seedCount, ctxDone, mons, dedups, jobs>>
    /\ UNCHANGED <<extractVars, scrollVars, procVars>>

RunSetCancelFunc ==
    /\ pc = "seeded"
    /\ mons' = [mons EXCEPT ![CurMon] = SetCancelFunc(@)]
    /\ pc' = "cancelset"
    /\ UNCHANGED <<run, runKind, runInst, retired, nextInst, seedCount, ctxDone, dedups, jobs>>
    /\ UNCHANGED <<extractVars, scrollVars, procVars>>

\* mutant: the monitor's goroutine is never started
RunGoMonitorOmitted ==
    /\ pc = "cancelset"
    /\ pc' = "monitoring"
    /\ UNCHANGED <<run, runKind, runInst, retired, nextInst, seedCount, ctxDone, mons, dedups, jobs>>
    /\ UNCHANGED <<extractVars, scrollVars, procVars>>

\* go exitMonitor.Run(ctx)
RunGoMonitor ==
    /\ pc = "cancelset"
    /\ mons' = [mons EXCEPT ![CurMon].goroutine = TRUE]
    /\ pc' = "monitoring"
    /\ UNCHANGED <<run, runKind, runInst, retired, nextInst, seedCount, ctxDone, dedups, jobs>>
    /\ UNCHANGED <<extractVars, scrollVars, procVars>>

\* app.Start(ctx, seedJobs...) is entered
RunAppStart ==
    /\ pc = "monitoring"
    /\ pc' = "started"
    /\ UNCHANGED <<run, runKind, runInst, retired, nextInst, seedCount, ctxDone, mons, dedups, jobs>>
    /\ UNCHANGED <<extractVars, scrollVars, procVars>>

\* app.Start returns once the context is done and the runner returns; the
\* scraper's queue and the run's Dedup Set go with it
RunReturn ==
    /\ pc = "started" /\ ctxDone
    /\ pc' = "returned"
    /\ jobs' = <<>>
    /\ dedups' = <<>>
    /\ UNCHANGED <<run, runKind, runInst, retired, nextInst, seedCount, ctxDone, mons>>
    /\ UNCHANGED <<extractVars, scrollVars, procVars>>

\* context.WithTimeout of the web job and of the lambda invocation expires;
\* the workers pull no more work, what is left in the queue is abandoned
RunDeadline ==
    /\ pc = "started" /\ ~ctxDone
    /\ CurKind \in {"web", "lambda"}
    /\ ctxDone' = TRUE
    /\ jobs' = <<>>
    /\ dedups' = <<>>
    /\ UNCHANGED <<run, pc, runKind, runInst, retired, nextInst, seedCount, mons>>
    /\ UNCHANGED <<extractVars, scrollVars, procVars>>

(***************************************************************************)
(* Workers of the scraper (the orchestrator is external): a worker pulls a *)
(* queued job while the context is live and runs its Process.              *)
(***************************************************************************)
Working == pc = "started" /\ ~ctxDone

Cancelled(ms) == \E m \in DOMAIN ms : ms[m].state = "Stopped"

RunUnchanged ==
    UNCHANGED <<run, pc, runKind, runInst, retired, nextInst, seedCount, extractVars, scrollVars, procVars>>

\* tryClaim on the links 1..k in the order scrolling reveals them: the Dedup
\* Set afterwards and the links this caller won
RECURSIVE ClaimLinks(_, _)
ClaimLinks(d, k) ==
    IF k = 0 THEN [dedup |-> d, found |-> {}]
    ELSE LET before == ClaimLinks(d, k - 1)
         IN  [dedup |-> tryClaim(before.dedup, k),
              found |-> IF tryClaimResult(before.dedup, k)
                        THEN before.found \cup {k} ELSE before.found]

\* seed search job (its source is not part of src/, modelled from spec.md
\* sections 4.1 and 4.2): the job finds the first k result links; each link is
\* claimed before a PlaceJob is created for it, and with no Dedup Set every
\* link is taken.  The children are registered, then the job's own completion
\* is recorded, then the orchestrator enqueues the children.
SearchProcess(j, k) ==
    LET d == jobs[j].dedup
        m == jobs[j].mon
        claimed == IF d = Nil THEN [dedup |-> Nil, found |-> 1..k]
                   ELSE ClaimLinks(dedups[d], k)
        kids == {PlaceId(j[2], l) : l \in claimed.found}
        registered == IncrPlacesFound(mons[m], Cardinality(kids))
    IN  /\ Working
        /\ j \in IdsOf("seed") /\ jobs[j].st = "queued"
        /\ d = Nil => Cardinality(IdsOf("place")) + Cardinality(kids) <= MaxPlaces
        /\ dedups' = IF d = Nil THEN dedups ELSE [dedups EXCEPT ![d] = claimed.dedup]
        /\ mons' = [mons EXCEPT ![m] = IncrSeedCompleted(registered, 1)]
        /\ jobs' = [i \in DOMAIN jobs \cup kids |->
                       IF i \in kids THEN NewJob(m, Nil)
                       ELSE IF i = j THEN [jobs[j] EXCEPT !.st = "done", !.out = "seed"]
                       ELSE jobs[i]]
        /\ ctxDone' = Cancelled(mons')
        /\ RunUnchanged

\* a worker runs PlaceJob.Process; the orchestrator enqueues the EmailJob
PlaceProcess(j, res) ==
    LET m == jobs[j].mon
        kids == IF res.child THEN {EmailId(j[2], j[3])} ELSE {}
    IN  /\ Working
        /\ j \in IdsOf("place") /\ jobs[j].st = "queued"
        /\ mons' = [mons EXCEPT ![m] = IF res.monitorCalls > 0
                                         THEN IncrPlacesCompleted(@, res.monitorCalls)
                                         ELSE @]
        /\ jobs' = [k \in DOMAIN jobs \cup kids |->
                       IF k \in kids THEN NewJob(res.emailOpts, Nil)
                       ELSE IF k = j THEN [jobs[j] EXCEPT !.st = "done", !.out = res.out]
                       ELSE jobs[k]]
        /\ ctxDone' = Cancelled(mons')
        /\ UNCHANGED dedups
        /\ RunUnchanged

\* a worker runs EmailExtractJob.Process
EmailProcess(j, in) ==
    LET res == EmailJobProcess(jobs[j].mon, in)
    IN  /\ Working
        /\ j \in IdsOf("email") /\ jobs[j].st = "queued"
        /\ mons' = IF res.monitorCalls > 0
                   THEN [mons EXCEPT ![jobs[j].mon] = IncrPlacesCompleted(@, res.monitorCalls)]
                   ELSE mons
        /\ jobs' = [jobs EXCEPT ![j].st = "done", ![j].out = res.out]
        /\ ctxDone' = Cancelled(mons')
        /\ UNCHANGED dedups
        /\ RunUnchanged

(***************************************************************************)
(* The monitor's goroutine (exiter.Run; modelled from spec.md section      *)
(* 4.3): completion that already holds when it starts is signalled at     *)
(* once; otherwise the inactivity timer may elapse, and then the workers   *)
(* pull no more work and what is left in the queue is abandoned.           *)
(***************************************************************************)
MonitorLive ==
    /\ pc \in {"monitoring", "started"} /\ ~ctxDone
    /\ mons[CurMon].goroutine /\ mons[CurMon].state = "Running"

MonitorRun ==
    /\ MonitorLive
    /\ mons[CurMon].completed = mons[CurMon].expected
    /\ mons' = [mons EXCEPT ![CurMon] = SignalStopped(@, "complete")]
    /\ ctxDone' = TRUE
    /\ UNCHANGED <<dedups, jobs>>
    /\ RunUnchanged

MonitorInactivity ==
    /\ MonitorLive
    /\ mons[CurMon].completed # mons[CurMon].expected
    /\ mons' = [mons EXCEPT ![CurMon] = SignalStopped(@, "inactivity")]
    /\ ctxDone' = TRUE
    /\ jobs' = <<>>
    /\ dedups' = <<>>
    /\ RunUnchanged

(***************************************************************************)
(* Texts are sequences of characters.  The operators below are the library *)
(* functions ExtractJSON calls (strings.TrimPrefix, strings.TrimSpace,     *)
(* json.Valid, json.Marshal, fmt.Sprintf("%v")) on the JSON grammar of     *)
(* non-negative integers, strings of letters, the three literals, arrays   *)
(* and objects.                                                            *)
(***************************************************************************)
Digits == <<"0", "1", "2", "3", "4", "5", "6", "7", "8", "9">>
Letters == <<"a", "b", "c">>

IsDigit(c) == \E k \in 1..Len(Digits) : Digits[k] = c
DigitVal(c) == (CHOOSE k \in 1..Len(Digits) : Digits[k] = c) - 1
IsLetter(c) == \E k \in 1..Len(Letters) : Letters[k] = c
LetterRank(c) == CHOOSE k \in 1..Len(Letters) : Letters[k] = c

\* unicode.IsSpace on the characters of the model
IsSpace(c) == c \in {" ", "\n", "\t", "\r"}

\* strings.TrimPrefix
TrimPrefix(s, p) ==
    IF Len(s) >= Len(p) /\ SubSeq(s, 1, Len(p)) = p
    THEN SubSeq(s, Len(p) + 1, Len(s))
    ELSE s

RECURSIVE TrimLeft(_)
TrimLeft(s) == IF s # <<>> /\ IsSpace(Head(s)) THEN TrimLeft(Tail(s)) ELSE s

RECURSIVE TrimRight(_)
TrimRight(s) ==
    IF s # <<>> /\ IsSpace(s[Len(s)]) THEN TrimRight(SubSeq(s, 1, Len(s) - 1)) ELSE s

\* strings.TrimSpace
TrimSpace(s) == TrimRight(TrimLeft(s))

\* JSON values, as encoding/json decodes them into interface{} values
Num(n) == <<"num", n>>
Str(s) == <<"str", s>>
Lit(w) == <<"lit", w>>
Arr(items) == <<"arr", items>>
Obj(m) == <<"obj", m>>

Fail == [ok |-> FALSE, next |-> 0, val |-> Lit("null")]
Done(i, v) == [ok |-> TRUE, next |-> i, val |-> v]

\* the scanner of encoding/json: whitespace between tokens
RECURSIVE SkipWs(_, _)
SkipWs(s, i) ==
    IF i <= Len(s) /\ s[i] \in {" ", "\n", "\t", "\r"} THEN SkipWs(s, i + 1) ELSE i

HasWord(s, i, w) == i + Len(w) - 1 <= Len(s) /\ SubSeq(s, i, i + Len(w) - 1) = w

RECURSIVE ParseDigits(_, _, _)
ParseDigits(s, i, acc) ==
    IF i <= Len(s) /\ IsDigit(s[i])
    THEN ParseDigits(s, i + 1, acc * 10 + DigitVal(s[i]))
    ELSE Done(i, Num(acc))

\* a number: 0, or a non-zero digit and more digits
ParseNumber(s, i) ==
    IF s[i] = "0" THEN Done(i + 1, Num(0)) ELSE ParseDigits(s, i, 0)

RECURSIVE ParseLetters(_, _)
ParseLetters(s, i) == IF i <= Len(s) /\ IsLetter(s[i]) THEN ParseLetters(s, i + 1) ELSE i

\* a string: letters between quotes
ParseString(s, i) ==
    LET j == ParseLetters(s, i + 1)
    IN  IF j <= Len(s) /\ s[j] = "\"" THEN Done(j + 1, Str(SubSeq(s, i + 1, j - 1)))
        ELSE Fail

RECURSIVE ParseValue(_, _)
RECURSIVE ParseElements(_, _, _)
RECURSIVE ParseMembers(_, _, _)

\* after '[' or ',': a value, then ',' or ']'
ParseElements(s, i, acc) ==
    LET v == ParseValue(s, i)
        j == SkipWs(s, v.next)
    IN  IF ~v.ok \/ j > Len(s) THEN Fail
        ELSE IF s[j] = "]" THEN Done(j + 1, Arr(Append(acc, v.val)))
        ELSE IF s[j] = "," THEN ParseElements(s, j + 1, Append(acc, v.val))
        ELSE Fail

\* after '{' or ',': a key, ':', a value, then ',' or '}'; a repeated key
\* keeps its last value
ParseMembers(s, i, acc) ==
    LET k0 == SkipWs(s, i)
        key == IF k0 <= Len(s) /\ s[k0] = "\"" THEN ParseString(s, k0) ELSE Fail
        c == SkipWs(s, key.next)
        v == IF key.ok /\ c <= Len(s) /\ s[c] = ":" THEN ParseValue(s, c + 1) ELSE Fail
        j == SkipWs(s, v.next)
        name == key.val[2]
        acc2 == [n \in DOMAIN acc \cup {name} |-> IF n = name THEN v.val ELSE acc[n]]
    IN  IF ~v.ok \/ j > Len(s) THEN Fail
        ELSE IF s[j] = "}" THEN Done(j + 1, Obj(acc2))
        ELSE IF s[j] = "," THEN ParseMembers(s, j + 1, acc2)
        ELSE Fail

ParseValue(s, i) ==
    LET j == SkipWs(s, i)
    IN  IF j > Len(s) THEN Fail
        ELSE IF IsDigit(s[j]) THEN ParseNumber(s, j)
        ELSE IF s[j] = "\"" THEN ParseString(s, j)
        ELSE IF HasWord(s, j, <<"n", "u", "l", "l">>) THEN Done(j + 4, Lit("null"))
        ELSE IF HasWord(s, j, <<"t", "r", "u", "e">>) THEN Done(j + 4, Lit("true"))
        ELSE IF HasWord(s, j, <<"f", "a", "l", "s", "e">>) THEN Done(j + 5, Lit("false"))
        ELSE IF s[j] = "["
             THEN LET k == SkipWs(s, j + 1)
                  IN  IF k <= Len(s) /\ s[k] = "]" THEN Done(k + 1, Arr(<<>>))
                      ELSE ParseElements(s, j + 1, <<>>)
        ELSE IF s[j] = "{"
             THEN LET k == SkipWs(s, j + 1)
                  IN  IF k <= Len(s) /\ s[k] = "}" THEN Done(k + 1, Obj(<<>>))
                      ELSE ParseMembers(s, j + 1, <<>>)
        ELSE Fail

ParseText(s) ==
    LET v == ParseValue(s, 1)
    IN  IF v.ok /\ SkipWs(s, v.next) = Len(s) + 1 THEN v ELSE Fail

\* json.Valid
Valid(s) == ParseText(s).ok

\* json.Unmarshal into an interface{} value
Decode(s) == ParseText(s).val

RECURSIVE ToDigits(_)
ToDigits(n) == IF n < 10 THEN <<Digits[n + 1]>> ELSE ToDigits(n \div 10) \o <<Digits[(n % 10) + 1]>>

WordChars(w) ==
    IF w = "null" THEN <<"n", "u", "l", "l">>
    ELSE IF w = "true" THEN <<"t", "r", "u", "e">>
    ELSE <<"f", "a", "l", "s", "e">>

RECURSIVE KeyLess(_, _)
KeyLess(a, b) ==
    IF a = <<>> THEN b # <<>>
    ELSE IF b = <<>> THEN FALSE
    ELSE IF Head(a) = Head(b) THEN KeyLess(Tail(a), Tail(b))
    ELSE LetterRank(Head(a)) < LetterRank(Head(b))

RECURSIVE SortedKeys(_)
SortedKeys(ks) ==
    IF ks = {} THEN <<>>
    ELSE LET least == CHOOSE k \in ks : \A o \in ks \ {k} : KeyLess(k, o)
         IN  <<least>> \o SortedKeys(ks \ {least})

RECURSIVE Marshal(_)
RECURSIVE MarshalItems(_, _)
RECURSIVE MarshalMembers(_, _, _)

MarshalItems(items, i) ==
    IF i > Len(items) THEN <<>>
    ELSE (IF i > 1 THEN <<",">> ELSE <<>>) \o Marshal(items[i]) \o MarshalItems(items, i + 1)

MarshalMembers(m, keys, i) ==
    IF i > Len(keys) THEN <<>>
    ELSE (IF i > 1 THEN <<",">> ELSE <<>>)
         \o <<"\"">> \o keys[i] \o <<"\"", ":">> \o Marshal(m[keys[i]])
         \o MarshalMembers(m, keys, i + 1)

\* json.Marshal: compact, the keys of a map sorted
Marshal(v) ==
    IF v[1] = "num" THEN ToDigits(v[2])
    ELSE IF v[1] = "str" THEN <<"\"">> \o v[2] \o <<"\"">>
    ELSE IF v[1] = "lit" THEN WordChars(v[2])
    ELSE IF v[1] = "arr" THEN <<"[">> \o MarshalItems(v[2], 1) \o <<"]">>
    ELSE <<"{">> \o MarshalMembers(v[2], SortedKeys(DOMAIN v[2]), 1) \o <<"}">>

\* fmt.Sprintf("%v", v) of a number or a boolean
Sprintf(v) == IF v[1] = "num" THEN ToDigits(v[2]) ELSE WordChars(v[2])

(***************************************************************************)
(* PlaceJob.ExtractJSON.                                                   *)
(***************************************************************************)
maxRetries == 3

\* the anti-hijacking prefix )]}'
prefix == <<")", "]", "}", "'">>

\* JSON texts the page can hold, without outer whitespace
TArrCompact == <<"[", "1", ",", "2", "]">>
TArrSpaced == <<"[", "1", ",", " ", "2", "]">>
TObjOne == <<"{", "\"", "a", "\"", ":", "1", "}">>
TObjUnsorted == <<"{", "\"", "b", "\"", ":", "1", ",", "\"", "a", "\"", ":", "[", "2", "]", "}">>
TNumber == <<"1", "2">>
TTrue == <<"t", "r", "u", "e">>
TNull == <<"n", "u", "l", "l">>
TArrOpen == <<"[", "1", ",">>
TEmpty == <<>>

ArrayTexts == {TArrCompact, TArrSpaced}
ObjectTexts == {TObjOne, TObjUnsorted}
ScalarTexts == {TNumber, TTrue}
ValidTexts == ArrayTexts \cup ObjectTexts \cup ScalarTexts
InvalidTexts == {TArrOpen, TEmpty}
Texts == ValidTexts \cup InvalidTexts

Blanks == {<<>>, <<"\n">>}

\* what one page.Evaluate(js) can deliver.  A text is built as
\* lead, the prefix if pre, ws1, j, ws2; an array, an object or a scalar is
\* the value that j denotes
Delivery(t, lead, pre, ws1, ws2, j) ==
    [t |-> t, lead |-> lead, pre |-> pre, ws1 |-> ws1, ws2 |-> ws2, j |-> j]

Plain(t, j) == Delivery(t, <<>>, FALSE, <<>>, <<>>, j)

NoEval == Plain("none", <<>>)

Evaluations ==
    {Plain("err", <<>>), Plain("nil", <<>>), Plain("unmarshalable", <<>>)}
    \cup {Delivery("string", lead, pre, ws1, ws2, j) :
            lead \in {<<>>, <<" ">>}, pre \in BOOLEAN,
            ws1 \in Blanks, ws2 \in Blanks, j \in Texts}
    \cup {Delivery("bytes", <<>>, TRUE, <<"\n">>, <<>>, j) : j \in Texts}
    \cup {Plain("array", j) : j \in ArrayTexts}
    \cup {Plain("object", j) : j \in ObjectTexts}
    \cup {Plain("other", j) : j \in ScalarTexts}

TextOf(o) == o.lead \o (IF o.pre THEN prefix ELSE <<>>) \o o.ws1 \o o.j \o o.ws2

ConvertNullAsText(o) ==
    IF o.t = "err" THEN [ok |-> FALSE, why |-> "err", raw |-> <<>>]
    ELSE IF o.t = "nil" THEN [ok |-> TRUE, why |-> "", raw |-> TNull]
    ELSE IF o.t = "unmarshalable" THEN [ok |-> FALSE, why |-> "marshal", raw |-> <<>>]
    ELSE IF o.t \in {"string", "bytes"} THEN [ok |-> TRUE, why |-> "", raw |-> TextOf(o)]
    ELSE IF o.t \in {"array", "object"} THEN [ok |-> TRUE, why |-> "", raw |-> Marshal(Decode(o.j))]
    ELSE [ok |-> TRUE, why |-> "", raw |-> Sprintf(Decode(o.j))]

\* the evaluation error check and the type switch: the raw string of a
\* delivery, or the reason the attempt is over
Convert(o) ==
    IF o.t = "err" THEN [ok |-> FALSE, why |-> "err", raw |-> <<>>]
    ELSE IF o.t = "nil" THEN [ok |-> FALSE, why |-> "nil", raw |-> <<>>]
    ELSE IF o.t = "unmarshalable" THEN [ok |-> FALSE, why |-> "marshal", raw |-> <<>>]
    ELSE IF o.t \in {"string", "bytes"} THEN [ok |-> TRUE, why |-> "", raw |-> TextOf(o)]
    ELSE IF o.t \in {"array", "object"} THEN [ok |-> TRUE, why |-> "", raw |-> Marshal(Decode(o.j))]
    ELSE [ok |-> TRUE, why |-> "", raw |-> Sprintf(Decode(o.j))]

StripNothing(raw) == TrimSpace(raw)

\* raw = strings.TrimSpace(strings.TrimPrefix(raw, prefix))
Strip(raw) == TrimSpace(TrimPrefix(raw, prefix))

\* one pass of the loop body from page.Evaluate on
Attempt(o) ==
    LET c == Convert(o)
        raw == Strip(c.raw)
    IN  IF ~c.ok THEN [ok |-> FALSE, why |-> c.why, raw |-> <<>>]
        ELSE IF ~Valid(raw) THEN [ok |-> FALSE, why |-> "invalid", raw |-> <<>>]
        ELSE [ok |-> TRUE, why |-> "ok", raw |-> raw]

ExtractUnchanged == UNCHANGED <<pipeVars, scrollVars, procVars, xCancel>>

\* the run's context is cancelled while ExtractJSON runs; ExtractJSON is
\* not handed the context
ExtractCtxDone ==
    /\ xPc \notin {"idle", "returned", "failed"} /\ ~xCancel
    /\ xCancel' = TRUE
    /\ UNCHANGED <<xPc, xAttempt, xLast, xLog, xResult, xErr, xSleeps, xEvals>>
    /\ UNCHANGED <<pipeVars, scrollVars, procVars>>

\* the call: attempt := 0
ExtractCall ==
    /\ xPc = "idle"
    /\ xPc' = "top"
    /\ UNCHANGED <<xAttempt, xLast, xLog, xResult, xErr, xSleeps, xEvals>>
    /\ ExtractUnchanged

ExtractEnterUnbounded ==
    /\ xPc = "top"
    /\ xPc' = IF xAttempt > 0 THEN "sleep" ELSE "eval"
    /\ UNCHANGED <<xAttempt, xLast, xLog, xResult, xErr, xSleeps, xEvals>>
    /\ ExtractUnchanged

\* attempt < maxRetries: into the loop body
ExtractEnter ==
    /\ xPc = "top" /\ xAttempt < maxRetries
    /\ xPc' = IF xAttempt > 0 THEN "sleep" ELSE "eval"
    /\ UNCHANGED <<xAttempt, xLast, xLog, xResult, xErr, xSleeps, xEvals>>
    /\ ExtractUnchanged

\* time.Sleep(retryDelay)
ExtractSleep ==
    /\ xPc = "sleep"
    /\ xSleeps' = xSleeps + 1
    /\ xPc' = "eval"
    /\ UNCHANGED <<xAttempt, xLast, xLog, xResult, xErr, xEvals>>
    /\ ExtractUnchanged

\* page.Evaluate(js) delivers o; the rest of the loop body
ExtractAttempt(o) ==
    /\ xPc = "eval"
    /\ xEvals' = xEvals + 1
    /\ xLast' = o
    /\ LET a == Attempt(o)
       IN  /\ xLog' = Append(xLog, a.why)
           /\ IF a.ok
              THEN /\ xPc' = "returned"
                   /\ xResult' = <<a.raw>>
                   /\ UNCHANGED xAttempt
              ELSE /\ xPc' = "top"
                   /\ xAttempt' = xAttempt + 1
                   /\ UNCHANGED xResult
    /\ UNCHANGED <<xErr, xSleeps>>
    /\ ExtractUnchanged

\* the loop is over: return nil and the error
ExtractGiveUp ==
    /\ xPc = "top" /\ xAttempt >= maxRetries
    /\ xPc' = "failed"
    /\ xErr' = TRUE
    /\ xResult' = <<>>
    /\ UNCHANGED <<xAttempt, xLast, xLog, xSleeps, xEvals>>
    /\ ExtractUnchanged

(***************************************************************************)
(* scrollWithBrowserless.                                                  *)
(***************************************************************************)
MaxDepthBound == 3

\* scrollHeight values of the feed element
Heights == {0, 100, 250, 400}

\* the heights of the feed after the 1st, 2nd, ... scroll
ShortScripts == UNION {[1..n -> Heights] : n \in 0..MaxDepthBound}

\* a feed that grows with every scroll, for MaxLongDepth scrolls
MaxLongDepth == 12
Growing == [k \in 1..MaxLongDepth |-> 100 * k]

Scripts == ShortScripts \cup {Growing}

\* waitTime is a float64; the model keeps it in thousandths
WaitScale == 1000
baseWait == 200
maxWait == 3000
scrollRetries == 3

NextWaitUncapped(w) == (w * 13) \div 10

\* waitTime *= 1.3, then the cap at maxWait
NextWait(w) ==
    LET grown == (w * 13) \div 10
    IN  IF grown > maxWait * WaitScale THEN maxWait * WaitScale ELSE grown

ValueKinds == {"int", "float", "fraction", "other"}

\* what page.Evaluate hands back for a scrollHeight h: an int, a float64
\* (in tenths, possibly with a fraction), or a value that is no number
ScrollValue(h, kind) ==
    IF kind = "int" THEN [t |-> "int", v |-> h]
    ELSE IF kind = "float" THEN [t |-> "float", v |-> h * 10]
    ELSE IF kind = "fraction" THEN [t |-> "float", v |-> h * 10 + 5]
    ELSE [t |-> "other", v |-> 0]

\* scrollHeight.(int), else int(scrollHeight.(float64))
HeightOf(val) == IF val.t = "int" THEN val.v ELSE val.v \div 10

RepeatsNever(height, current) == FALSE

\* height == currentScrollHeight
Repeats(height, current) == height = current

ScrollUnchanged == UNCHANGED <<pipeVars, extractVars, procVars>>

ScrollReturn(n, err) ==
    /\ sPc' = "returned"
    /\ sRet' = <<n>>
    /\ sErr' = err

\* the call, waitForElementWithRetry and the initialisations
ScrollCall(script, depth, found) ==
    /\ sPc = "idle"
    /\ depth <= Len(script)
    /\ sScript' = script
    /\ sMaxDepth' = depth
    /\ IF found
       THEN /\ sPc' = "top"
            /\ sWait' = baseWait * WaitScale
            /\ UNCHANGED <<sRet, sErr>>
       ELSE /\ ScrollReturn(0, "element")
            /\ UNCHANGED sWait
    /\ UNCHANGED <<sI, sCnt, sCur, sRetry, sEvals, sOk, sSleeps, sWaits, sCancel, sCancelCnt>>
    /\ ScrollUnchanged

\* a call of scrollWithBrowserless, on any feed and with any maxDepth
ScrollStart ==
    /\ sPc = "idle"
    /\ \E script \in Scripts : \E depth \in 0..Len(script) : \E found \in BOOLEAN :
          ScrollCall(script, depth, found)

\* i < maxDepth: cnt++, retry := 0
ScrollRoundForever ==
    /\ sPc = "top"
    /\ sCnt' = sCnt + 1
    /\ sRetry' = 0
    /\ sPc' = "eval"
    /\ UNCHANGED <<sScript, sMaxDepth, sI, sCur, sWait, sEvals, sOk, sSleeps, sWaits,
                   sRet, sErr, sCancel, sCancelCnt>>
    /\ ScrollUnchanged

ScrollRound ==
    /\ sPc = "top" /\ sI < sMaxDepth
    /\ sCnt' = sCnt + 1
    /\ sRetry' = 0
    /\ sPc' = "eval"
    /\ UNCHANGED <<sScript, sMaxDepth, sI, sCur, sWait, sEvals, sOk, sSleeps, sWaits,
                   sRet, sErr, sCancel, sCancelCnt>>
    /\ ScrollUnchanged

\* i >= maxDepth: return cnt, nil
ScrollExhausted ==
    /\ sPc = "top" /\ sI >= sMaxDepth
    /\ ScrollReturn(sCnt, "none")
    /\ UNCHANGED <<sScript, sMaxDepth, sI, sCnt, sCur, sWait, sRetry, sEvals, sOk,
                   sSleeps, sWaits, sCancel, sCancelCnt>>
    /\ ScrollUnchanged

ScrollEvaluateErrorFatal ==
    /\ sPc = "eval"
    /\ sEvals' = sEvals + 1
    /\ sRetry' = sRetry + 1
    /\ ScrollReturn(sCnt, "eval")
    /\ UNCHANGED <<sScript, sMaxDepth, sI, sCnt, sCur, sWait, sOk, sSleeps, sWaits, sCancel, sCancelCnt>>
    /\ ScrollUnchanged

\* page.Evaluate fails: back off, or leave the retry loop with the error
ScrollEvaluateError ==
    /\ sPc = "eval"
    /\ sEvals' = sEvals + 1
    /\ IF sRetry < scrollRetries - 1
       THEN /\ sPc' = "backoff"
            /\ UNCHANGED <<sRetry, sRet, sErr>>
       ELSE /\ sRetry' = sRetry + 1
            /\ ScrollReturn(sCnt, "eval")
    /\ UNCHANGED <<sScript, sMaxDepth, sI, sCnt, sCur, sWait, sOk, sSleeps, sWaits, sCancel, sCancelCnt>>
    /\ ScrollUnchanged

\* time.Sleep(5 * time.Second), retry++
ScrollBackoff ==
    /\ sPc = "backoff"
    /\ sSleeps' = sSleeps + 1
    /\ sRetry' = sRetry + 1
    /\ sPc' = "eval"
    /\ UNCHANGED <<sScript, sMaxDepth, sI, sCnt, sCur, sWait, sEvals, sOk, sWaits,
                   sRet, sErr, sCancel, sCancelCnt>>
    /\ ScrollUnchanged

\* page.Evaluate scrolls and hands back the next height as a value of
\* the given kind; the type switch and the comparison with
\* currentScrollHeight
ScrollEvaluate(kind) ==
    /\ sPc = "eval"
    /\ sEvals' = sEvals + 1
    /\ sOk' = sOk + 1
    /\ LET val == ScrollValue(sScript[sOk + 1], kind)
       IN  IF val.t = "other"
           THEN /\ ScrollReturn(sCnt, "type")
                /\ UNCHANGED sCur
           ELSE IF Repeats(HeightOf(val), sCur)
           THEN /\ ScrollReturn(sCnt, "none")
                /\ UNCHANGED sCur
           ELSE /\ sCur' = HeightOf(val)
                /\ sPc' = "select"
                /\ UNCHANGED <<sRet, sErr>>
    /\ UNCHANGED <<sScript, sMaxDepth, sI, sCnt, sWait, sRetry, sSleeps, sWaits, sCancel, sCancelCnt>>
    /\ ScrollUnchanged

\* select on ctx.Done(): return currentScrollHeight, ctx.Err()
ScrollCancelled ==
    /\ sPc = "select" /\ sCancel
    /\ ScrollReturn(sCur, "ctx")
    /\ UNCHANGED <<sScript, sMaxDepth, sI, sCnt, sCur, sWait, sRetry, sEvals, sOk,
                   sSleeps, sWaits, sCancel, sCancelCnt>>
    /\ ScrollUnchanged

ScrollWaitUnchecked ==
    /\ sPc = "select"
    /\ sWait' = NextWait(sWait)
    /\ sWaits' = sWaits + 1
    /\ sI' = sI + 1
    /\ sPc' = "top"
    /\ UNCHANGED <<sScript, sMaxDepth, sCnt, sCur, sRetry, sEvals, sOk, sSleeps,
                   sRet, sErr, sCancel, sCancelCnt>>
    /\ ScrollUnchanged

\* the default case, the new waitTime, page.WaitForTimeout(waitTime), i++
ScrollWait ==
    /\ sPc = "select" /\ ~sCancel
    /\ sWait' = NextWait(sWait)
    /\ sWaits' = sWaits + 1
    /\ sI' = sI + 1
    /\ sPc' = "top"
    /\ UNCHANGED <<sScript, sMaxDepth, sCnt, sCur, sRetry, sEvals, sOk, sSleeps,
                   sRet, sErr, sCancel, sCancelCnt>>
    /\ ScrollUnchanged

\* the caller's context is cancelled while the paginator runs
ScrollCtxDone ==
    /\ sPc \notin {"idle", "returned"} /\ ~sCancel
    /\ sCancel' = TRUE
    /\ sCancelCnt' = sCnt
    /\ UNCHANGED <<sPc, sScript, sMaxDepth, sI, sCnt, sCur, sWait, sRetry, sEvals, sOk,
                   sSleeps, sWaits, sRet, sErr>>
    /\ ScrollUnchanged

(***************************************************************************)
(* PlaceJob.Process and EmailExtractJob.Process on Entry records.  Texts   *)
(* are sequences, <<>> the empty string.                                   *)
(***************************************************************************)
JobURLs == {<<"u">>, <<"v">>}
LangCode == <<"e", "n">>
ParentIDs == {<<"i">>}

\* the receivers of PlaceJob.Process, as NewPlaceJob builds them
PlaceJobs ==
    [url : JobURLs, parentID : ParentIDs, extractEmail : BOOLEAN,
     extraReviews : BOOLEAN, reviewsLimit : {0, 5}]

\* scrapemate.Job.GetFullURL: the URL and the URL parameters (hl)
GetFullURL(job) == job.url \o <<"?", "h", "l", "=">> \o LangCode

\* a website on which no email is looked for
Social == <<"f", "b">>

\* what resp.Meta["json"] holds: a payload that does not parse, or the
\* fields of the place
BadPayload ==
    [ok |-> FALSE, link |-> <<>>, reviewCount |-> 0, website |-> <<>>,
     reviews |-> <<>>, emails |-> <<>>]

Payloads ==
    {BadPayload}
    \cup [ok : {TRUE}, link : {<<>>, <<"p">>}, reviewCount : {8, 9},
          website : {<<>>, <<"w">>, Social}, reviews : {<<>>, <<"r0">>},
          emails : {<<>>, <<"e0">>}]

ReviewLists == {<<>>, <<"r1">>, <<"r1", "r2">>, <<"r2", "r1">>}

\* what scrollReviews or reviewFetcher.fetch returns
FetchOutcomes ==
    {[err |-> TRUE, reviews |-> <<>>]} \cup [err : {FALSE}, reviews : ReviewLists]

PlaceResponses ==
    [metaOk : BOOLEAN, raw : Payloads, docIsPage : BOOLEAN, fetch : FetchOutcomes]

\* EntryFromJSON
EntryFromJSON(raw) ==
    [id |-> <<>>, link |-> raw.link, website |-> raw.website,
     reviewCount |-> raw.reviewCount, reviews |-> raw.reviews, emails |-> raw.emails]

\* getReviewCount
getReviewCount(raw) == IF ~raw.ok THEN 0 ELSE EntryFromJSON(raw).reviewCount

\* Entry.AddReview
AddReview(entry, review) == [entry EXCEPT !.reviews = Append(@, review)]

\* for _, review := range reviews { entry.AddReview(...) }
RECURSIVE AddReviews(_, _, _)
AddReviews(entry, reviews, i) ==
    IF i > Len(reviews) THEN entry
    ELSE AddReviews(AddReview(entry, reviews[i]), reviews, i + 1)

\* Entry.IsWebsiteValidForEmail
IsWebsiteValidForEmail(entry) == entry.website # <<>> /\ entry.website # Social

extractBusinessInfo(raw) == [website |-> <<>>]

\* NewEmailJob(j.ParentID, &entry): no option, so no ExitMonitor
NewEmailJob(parentID, entry) ==
    [kind |-> "email", parentID |-> parentID, url |-> entry.website,
     entry |-> entry, monitor |-> Nil]

NoEntry == EntryFromJSON(BadPayload)

Returns(entry, children, meta) ==
    [err |-> FALSE, hasEntry |-> TRUE, entry |-> entry, children |-> children,
     meta |-> meta]

ReturnsError ==
    [err |-> TRUE, hasEntry |-> FALSE, entry |-> NoEntry, children |-> <<>>,
     meta |-> <<>>]

ChildAlways(job, entry) == <<NewEmailJob(job.parentID, entry)>>

\* the children of lines 147-157
EmailChild(job, entry) ==
    IF job.extractEmail /\ IsWebsiteValidForEmail(entry)
    THEN <<NewEmailJob(job.parentID, entry)>>
    ELSE <<>>

LinkKept(job, entry) == entry

\* lines 85-87
LinkDefault(job, entry) ==
    IF entry.link = <<>> THEN [entry EXCEPT !.link = GetFullURL(job)] ELSE entry

\* PlaceJob.Process.  meta is resp.Meta["reviews_raw"] as the caller finds
\* it after the deferred function has run
ProcessPlaceJob(job, resp) ==
    IF ~resp.metaOk \/ ~resp.raw.ok THEN ReturnsError
    ELSE
      LET parsed == [EntryFromJSON(resp.raw) EXCEPT !.id = job.parentID]
          linked == LinkDefault(job, parsed)
          more == job.extraReviews /\ getReviewCount(resp.raw) > 8
          scrolled == IF more /\ job.reviewsLimit # 0 /\ ~resp.fetch.err
                      THEN AddReviews(linked, resp.fetch.reviews, 1)
                      ELSE linked
          info == extractBusinessInfo(resp.raw)
          entry == IF job.extractEmail /\ info.website # <<>>
                   THEN [scrolled EXCEPT !.website = info.website]
                   ELSE scrolled
      IN  IF more /\ ~resp.docIsPage THEN Returns(linked, <<>>, <<>>)
          ELSE Returns(entry, EmailChild(job, entry), <<>>)

\* the website as the browser finds it: whether the navigation times out
\* or fails, whether page.Content fails, and the content ("empty", text
\* without an address, or text with the address e2)
EmailPages ==
    [timeout : BOOLEAN, gotoErr : BOOLEAN, contentErr : BOOLEAN,
     content : {"empty", "plain", "mail"}]

\* EmailExtractJob.BrowserActions: resp.Error and resp.Body ("none" is nil)
EmailBrowserActions(page) ==
    IF page.timeout THEN [nav |-> "timeout", error |-> TRUE, body |-> "none"]
    ELSE IF page.gotoErr
    THEN [nav |-> "failed", error |-> TRUE,
          body |-> IF ~page.contentErr /\ page.content # "empty" THEN page.content ELSE "none"]
    ELSE IF page.contentErr THEN [nav |-> "ok", error |-> TRUE, body |-> "none"]
    ELSE [nav |-> "ok", error |-> FALSE, body |-> page.content]

\* regexEmailExtractor(resp.Body)
regexEmailExtractor(body) == IF body = "mail" THEN <<"e2">> ELSE <<>>

\* the response Process is given: resp.Error and resp.Body from
\* BrowserActions, resp.Document as a goquery document or not, and what
\* docEmailExtractor finds in it (nothing when there is no body)
EmailResponses ==
    {resp \in
     {[nav |-> EmailBrowserActions(page).nav,
      fetchErr |-> EmailBrowserActions(page).error,
      body |-> EmailBrowserActions(page).body,
      docOk |-> docOk, docEmails |-> docEmails,
      bodyEmails |-> regexEmailExtractor(EmailBrowserActions(page).body)] :
        page \in EmailPages, docOk \in BOOLEAN, docEmails \in {<<>>, <<"e1">>}} :
        resp.body = "none" => resp.docEmails = <<>>}

\* j.Entry.Emails = emails
SetEmails(entry, emails) == [entry EXCEPT !.emails = emails]

EmailFailureDropsEmails(job) == Returns([job.entry EXCEPT !.emails = <<>>], <<>>, <<>>)

\* return j.Entry, nil, nil
EmailFailure(job) == Returns(job.entry, <<>>, <<>>)

\* EmailExtractJob.Process
ProcessEmailJob(job, resp) ==
    IF resp.fetchErr THEN EmailFailure(job)
    ELSE IF ~resp.docOk THEN EmailFailure(job)
    ELSE LET emails == IF resp.docEmails = <<>> THEN resp.bodyEmails
                       ELSE resp.docEmails
         IN  Returns(SetEmails(job.entry, emails), <<>>, <<>>)

\* PlaceJob.UseInResults: UsageInResultststs, set in NewPlaceJob and never
\* written again
PlaceUseInResults(job) == TRUE

\* EmailExtractJob has no UseInResults of its own: scrapemate.Job's applies
EmailUseInResults(job) == TRUE

\* the records the output writer receives from one Process call
Written(use, out) == IF use /\ ~out.err /\ out.hasEntry THEN <<out.entry>> ELSE <<>>

ProcUnchanged == UNCHANGED <<pipeVars, extractVars, scrollVars>>

\* a worker runs Process of a Place job
PlaceJobCall ==
    /\ pCall = "none"
    /\ \E job \in PlaceJobs : \E resp \in PlaceResponses :
          /\ pIn' = [job |-> job, resp |-> resp]
          /\ pOut' = ProcessPlaceJob(job, resp)
    /\ pCall' = "place"
    /\ ProcUnchanged

\* a worker runs Process of the Email job that the Place job returned
EmailJobCall ==
    /\ pCall = "place" /\ pOut.children # <<>>
    /\ \E resp \in EmailResponses :
          /\ pIn' = [job |-> pOut.children[1], resp |-> resp,
                      parent |-> [job |-> pIn.job, out |-> pOut]]
          /\ pOut' = ProcessEmailJob(pOut.children[1], resp)
    /\ pCall' = "email"
    /\ ProcUnchanged

(***************************************************************************)
(* Config.ValidateBrowserlessConfigurationWithFallback.                    *)
(***************************************************************************)
\* strings.HasPrefix
HasPrefix(s, p) == Len(s) >= Len(p) /\ SubSeq(s, 1, Len(p)) = p

BrowserlessURLs ==
    {<<>>, <<"h", "t", "t", "p", ":", "/", "/", "h">>, <<"w", "s", ":", "/", "/", "h">>, <<"w", "s", "s", ":", "/", "/", "h">>, <<"w", "s", ":", "/", "h">>}

\* values of an environment variable; "" when it is not set
EnvValues == {"", "true", "1", "false", "TRUE", "0", "yes"}

\* the receiver, the environment, and what url.Parse and the endpoint do
ValidateInputs ==
    [useBrowserless : BOOLEAN, url : BrowserlessURLs, parses : BOOLEAN,
     fallbackEnv : EnvValues, disableEnv : EnvValues, reachable : BOOLEAN]

validateBrowserlessURLFormatLax(in) == in.parses

\* validateBrowserlessURLFormat returns nil
validateBrowserlessURLFormat(in) ==
    /\ in.url # <<>>
    /\ HasPrefix(in.url, <<"w", "s", ":", "/", "/">>) \/ HasPrefix(in.url, <<"w", "s", "s", ":", "/", "/">>)
    /\ in.parses

isLocalPlaywrightAlways(in) == TRUE

isLocalPlaywrightAvailable(in) == ~(in.disableEnv = "true" \/ in.disableEnv = "1")

\* attemptFallbackToLocal: its result and c.UseBrowserless after it
attemptFallbackToLocal(in) ==
    IF in.fallbackEnv # "true" /\ in.fallbackEnv # "1"
    THEN [fell |-> FALSE, useBrowserless |-> in.useBrowserless]
    ELSE IF ~isLocalPlaywrightAvailable(in)
    THEN [fell |-> FALSE, useBrowserless |-> in.useBrowserless]
    ELSE [fell |-> TRUE, useBrowserless |-> FALSE]

\* the returned error, c.UseBrowserless after the call, whether the endpoint
\* was contacted and whether the fallback was attempted
ValidateBrowserlessConfigurationWithFallback(in) ==
    IF ~in.useBrowserless
    THEN [err |-> "none", useBrowserless |-> in.useBrowserless,
          contacted |-> FALSE, fallback |-> FALSE]
    ELSE IF ~validateBrowserlessURLFormat(in)
    THEN [err |-> "format", useBrowserless |-> in.useBrowserless,
          contacted |-> FALSE, fallback |-> FALSE]
    ELSE IF ~in.reachable
    THEN LET fb == attemptFallbackToLocal(in)
         IN  [err |-> IF fb.fell THEN "none" ELSE "connection",
              useBrowserless |-> fb.useBrowserless,
              contacted |-> TRUE, fallback |-> TRUE]
    ELSE [err |-> "none", useBrowserless |-> in.useBrowserless,
          contacted |-> TRUE, fallback |-> FALSE]

\* a runner validates its configuration
ValidateCall ==
    /\ pCall = "none"
    /\ \E in \in ValidateInputs :
          /\ pIn' = in
          /\ pOut' = ValidateBrowserlessConfigurationWithFallback(in)
    /\ pCall' = "validate"
    /\ ProcUnchanged

\* attemptFallbackToLocal called on its own, after a failed connection
FallbackCall ==
    /\ pCall = "none"
    /\ \E in \in ValidateInputs :
          /\ in.useBrowserless
          /\ pIn' = in
          /\ pOut' = [err |-> IF attemptFallbackToLocal(in).fell THEN "none" ELSE "connection",
                      useBrowserless |-> attemptFallbackToLocal(in).useBrowserless,
                      contacted |-> FALSE, fallback |-> TRUE]
    /\ pCall' = "fallback"
    /\ ProcUnchanged

(***************************************************************************)
(* The Browserless WebSocket URL (runner/browserless.go) and what the      *)
(* runners log about it.  Strings are sequences of one-character strings;  *)
(* net/url and strings are modelled on the characters below.               *)
(***************************************************************************)
\* the characters of the model, in byte order
Bytes ==
    <<" ", "#", "%", "&", "+", "/", "1", "2", "3", "5", ":", "=", "?",
      "A", "B", "D", "F", "[", "a", "b", "e", "h", "k", "n", "o", "p",
      "s", "t", "w", "x">>

ByteRank(c) == CHOOSE k \in 1..Len(Bytes) : Bytes[k] = c

\* the comparison of sort.Strings
RECURSIVE StrLess(_, _)
StrLess(a, b) ==
    IF a = <<>> THEN b # <<>>
    ELSE IF b = <<>> THEN FALSE
    ELSE IF Head(a) = Head(b) THEN StrLess(Tail(a), Tail(b))
    ELSE ByteRank(Head(a)) < ByteRank(Head(b))

\* strings.Index for a one-character separator; 0 when absent
Index(s, c) ==
    IF \E i \in 1..Len(s) : s[i] = c
    THEN CHOOSE i \in 1..Len(s) : s[i] = c /\ \A j \in 1..(i - 1) : s[j] # c
    ELSE 0

\* strings.Cut
Cut(s, c) ==
    LET i == Index(s, c)
    IN  IF i = 0 THEN [before |-> s, after |-> <<>>, found |-> FALSE]
        ELSE [before |-> SubSeq(s, 1, i - 1), after |-> SubSeq(s, i + 1, Len(s)), found |-> TRUE]

\* strings.Contains
Contains(s, sub) ==
    \E i \in 1..(Len(s) - Len(sub) + 1) : SubSeq(s, i, i + Len(sub) - 1) = sub

\* strings.Replace(s, old, new, -1) for a non-empty old
RECURSIVE ReplaceAll(_, _, _)
ReplaceAll(s, old, new) ==
    IF Len(s) < Len(old) THEN s
    ELSE IF SubSeq(s, 1, Len(old)) = old
    THEN new \o ReplaceAll(SubSeq(s, Len(old) + 1, Len(s)), old, new)
    ELSE <<Head(s)>> \o ReplaceAll(Tail(s), old, new)

\* the characters url.QueryEscape leaves alone
Unreserved == {"1", "2", "3", "5", "A", "B", "D", "F", "a", "b", "e", "h", "k", "n", "o", "p", "s", "t", "w", "x"}

\* the two hexadecimal digits of a character that is escaped
HexOf(c) ==
    CASE c = "#" -> <<"2", "3">>
      [] c = "%" -> <<"2", "5">>
      [] c = "&" -> <<"2", "6">>
      [] c = "+" -> <<"2", "B">>
      [] c = "/" -> <<"2", "F">>
      [] c = ":" -> <<"3", "A">>
      [] c = "=" -> <<"3", "D">>
      [] c = "?" -> <<"3", "F">>
      [] OTHER -> <<"5", "B">>

Escaped == {"#", "%", "&", "+", "/", ":", "=", "?", "["}

\* url.QueryEscape
RECURSIVE QueryEscape(_)
QueryEscape(s) ==
    IF s = <<>> THEN <<>>
    ELSE (IF Head(s) \in Unreserved THEN <<Head(s)>>
          ELSE IF Head(s) = " " THEN <<"+">>
          ELSE <<"%">> \o HexOf(Head(s))) \o QueryEscape(Tail(s))

\* the characters of url.QueryUnescape's result, with "invalid" in the place
\* of a malformed escape
RECURSIVE Unescaped(_)
Unescaped(s) ==
    IF s = <<>> THEN <<>>
    ELSE IF Head(s) = "%"
    THEN IF Len(s) >= 3 /\ \E c \in Escaped : HexOf(c) = SubSeq(s, 2, 3)
         THEN <<CHOOSE c \in Escaped : HexOf(c) = SubSeq(s, 2, 3)>>
                  \o Unescaped(SubSeq(s, 4, Len(s)))
         ELSE <<"invalid">>
    ELSE <<IF Head(s) = "+" THEN " " ELSE Head(s)>> \o Unescaped(Tail(s))

\* url.QueryUnescape: the text, and whether every escape was well-formed
QueryUnescape(s) ==
    [ok |-> \A i \in 1..Len(Unescaped(s)) : Unescaped(s)[i] # "invalid",
     text |-> Unescaped(s)]

\* one key=value segment of a query: its pair, or nothing when it is empty
\* or malformed
QueryPair(segment) ==
    LET kv == Cut(segment, "=")
    IN  IF segment = <<>> \/ ~QueryUnescape(kv.before).ok \/ ~QueryUnescape(kv.after).ok
        THEN <<>>
        ELSE <<[key |-> QueryUnescape(kv.before).text, value |-> QueryUnescape(kv.after).text]>>

\* url.ParseQuery as URL.Query uses it: the pairs in order of appearance,
\* malformed pairs dropped
RECURSIVE ParseQuery(_)
ParseQuery(q) ==
    IF q = <<>> THEN <<>>
    ELSE CHOOSE pairs \in {QueryPair(seg.before) \o ParseQuery(seg.after) : seg \in {Cut(q, "&")}} : TRUE

\* Values.Get
Get(values, key) ==
    IF \E i \in 1..Len(values) : values[i].key = key
    THEN values[CHOOSE i \in 1..Len(values) :
                    values[i].key = key /\ \A j \in 1..(i - 1) : values[j].key # key].value
    ELSE <<>>

Has(values, key) == \E i \in 1..Len(values) : values[i].key = key

\* Values.Set
Set(values, key, value) ==
    SelectSeq(values, LAMBDA p : p.key # key) \o <<[key |-> key, value |-> value]>>

\* the pairs sorted by key, the values of a key in their order
SortByKey(values) ==
    [r \in 1..Len(values) |->
        values[CHOOSE i \in 1..Len(values) :
                   Cardinality({j \in 1..Len(values) :
                                   \/ StrLess(values[j].key, values[i].key)
                                   \/ values[j].key = values[i].key /\ j < i}) = r - 1]]

RECURSIVE JoinPairs(_, _)
JoinPairs(pairs, i) ==
    IF i > Len(pairs) THEN <<>>
    ELSE (IF i > 1 THEN <<"&">> ELSE <<>>)
             \o QueryEscape(pairs[i].key) \o <<"=">> \o QueryEscape(pairs[i].value)
             \o JoinPairs(pairs, i + 1)

\* Values.Encode
Encode(values) ==
    CHOOSE text \in {JoinPairs(pairs, 1) : pairs \in {SortByKey(values)}} : TRUE

SchemeChars == {"a", "b", "e", "h", "k", "n", "o", "p", "s", "t", "w", "x"}

\* getScheme of net/url: the scheme and the rest, or an error
RECURSIVE getScheme(_, _)
getScheme(raw, i) ==
    IF i > Len(raw) THEN [ok |-> TRUE, scheme |-> <<>>, rest |-> raw]
    ELSE IF raw[i] \in SchemeChars THEN getScheme(raw, i + 1)
    ELSE IF raw[i] = ":"
    THEN IF i = 1 THEN [ok |-> FALSE, scheme |-> <<>>, rest |-> <<>>]
         ELSE [ok |-> TRUE, scheme |-> SubSeq(raw, 1, i - 1), rest |-> SubSeq(raw, i + 1, Len(raw))]
    ELSE [ok |-> TRUE, scheme |-> <<>>, rest |-> raw]

NoURL == [ok |-> FALSE, scheme |-> <<>>, opaque |-> <<>>, host |-> <<>>, slashes |-> FALSE,
          path |-> <<>>, rawQuery |-> <<>>]

\* url.Parse on the URLs of the model (no fragment, no user information)
Parse(raw) ==
    LET sch == getScheme(raw, 1)
        q == Cut(sch.rest, "?")
        rest == q.before
        auth == Cut(SubSeq(rest, 3, Len(rest)), "/")
    IN  IF ~sch.ok THEN NoURL
        ELSE IF ~HasPrefix(rest, <<"/">>)
        THEN IF sch.scheme # <<>>
             THEN [NoURL EXCEPT !.ok = TRUE, !.scheme = sch.scheme, !.opaque = rest, !.rawQuery = q.after]
             ELSE IF Index(Cut(rest, "/").before, ":") # 0 THEN NoURL
             ELSE [NoURL EXCEPT !.ok = TRUE, !.path = rest, !.rawQuery = q.after]
        ELSE IF HasPrefix(rest, <<"/", "/">>)
        THEN IF HasPrefix(auth.before, <<"[">>) /\ Index(auth.before, "]") = 0 THEN NoURL
             ELSE [NoURL EXCEPT !.ok = TRUE, !.scheme = sch.scheme, !.host = auth.before,
                                !.slashes = TRUE,
                                !.path = IF auth.found THEN <<"/">> \o auth.after ELSE <<>>,
                                !.rawQuery = q.after]
        ELSE [NoURL EXCEPT !.ok = TRUE, !.scheme = sch.scheme, !.path = rest, !.rawQuery = q.after]

\* URL.String
String(u) ==
    (IF u.scheme # <<>> THEN u.scheme \o <<":">> ELSE <<>>)
        \o (IF u.opaque # <<>> THEN u.opaque
            ELSE (IF (u.scheme # <<>> \/ u.host # <<>>) /\ (u.host # <<>> \/ u.path # <<>>)
                  THEN <<"/", "/">> ELSE <<>>)
                 \o u.host \o u.path)
        \o (IF u.rawQuery # <<>> THEN <<"?">> \o u.rawQuery ELSE <<>>)

ws == <<"w", "s">>
wss == <<"w", "s", "s">>
TokenKey == <<"t", "o", "k", "e", "n">>
REDACTED == <<"[", "R", "E", "D", "A", "C", "T", "E", "D", "]">>

\* the base URLs of the model: a scheme or none, a host, a query or none
Schemes == {<<>>, ws, wss, <<"h", "t", "t", "p">>}
Hosts == {<<"h">>, <<"[", "h">>}
Queries == {<<>>, <<"x", "=", "1">>, <<"a", "=", "1">>, <<"t", "o", "k", "e", "n", "=", "o", "k">>, <<"x", "=", "1", "&", "a", "=", "2">>}

MkURL(scheme, host, query) ==
    (IF scheme = <<>> THEN <<>> ELSE scheme \o <<":", "/", "/">>) \o host
        \o (IF query = <<>> THEN <<>> ELSE <<"?">> \o query)

BaseURLs ==
    {<<>>, <<":", "h">>} \cup {MkURL(s, h, q) : s \in Schemes, h \in Hosts, q \in Queries}

\* the tokens of the model: none, one of unreserved characters, one that
\* url.QueryEscape rewrites
Tokens == {<<>>, <<"t", "k">>, <<"a", " ", "b">>}

\* one line of the log: the format of the call and its arguments
Line(format, args) == [format |-> format, args |-> args]

\* BuildBrowserlessWebSocketURL: the URL, the error and the lines it logs
BuildBrowserlessWebSocketURL(baseURL, token) ==
    IF baseURL = <<>> THEN [url |-> <<>>, err |-> "empty", log |-> <<>>]
    ELSE CHOOSE out \in
        {IF ~parsedURL.ok THEN [url |-> <<>>, err |-> "format", log |-> <<>>]
         ELSE IF parsedURL.scheme # ws /\ parsedURL.scheme # wss
         THEN [url |-> <<>>, err |-> "scheme", log |-> <<>>]
         ELSE CHOOSE built \in
             {[url |-> wsURL, err |-> "none",
               log |-> <<Line("Built WebSocket URL: %s (token: %s)",
                              <<IF token # <<>> THEN ReplaceAll(wsURL, token, REDACTED)
                                ELSE wsURL,
                                IF token # <<>> THEN ToDigits(Len(token)) ELSE <<>>>>)>>]
              : wsURL \in
                  {String(IF token # <<>>
                          THEN [parsedURL EXCEPT !.rawQuery =
                                    Encode(Set(ParseQuery(parsedURL.rawQuery), TokenKey, token))]
                          ELSE parsedURL)}} : TRUE
         : parsedURL \in {Parse(baseURL)}} : TRUE

\* a caller builds the WebSocket URL
BuildURLCall ==
    /\ pCall = "none"
    /\ \E baseURL \in BaseURLs, token \in Tokens :
          /\ pIn' = [url |-> baseURL, token |-> token]
          /\ pOut' = BuildBrowserlessWebSocketURL(baseURL, token)
    /\ pCall' = "build"
    /\ ProcUnchanged

\* Config.GetBrowserlessWebSocketURL; the error text of a
\* BrowserlessConnectionError names the base URL
GetBrowserlessWebSocketURL(baseURL, token) ==
    CHOOSE out \in
        {[built EXCEPT !.log =
            <<Line("Building WebSocket URL from config", <<>>)>> \o built.log
                \o <<IF built.err # "none"
                     THEN Line("Failed to build WebSocket URL: %v", <<baseURL>>)
                     ELSE Line("Successfully built WebSocket URL", <<>>)>>]
         : built \in {BuildBrowserlessWebSocketURL(baseURL, token)}} : TRUE

\* fileRunner.configureBrowserlessOptions
configureBrowserlessOptions(baseURL, token) ==
    CHOOSE out \in
        {[got EXCEPT !.log =
            <<Line("Starting scrapemate configuration", <<>>)>> \o got.log
                \o (IF got.err # "none"
                    THEN <<Line("Error: Failed to build WebSocket URL: %v", <<baseURL>>)>>
                    ELSE <<Line("WebSocket URL built: %s",
                                <<IF token # <<>> THEN ReplaceAll(got.url, token, REDACTED)
                                  ELSE got.url>>),
                           Line("Configuring browser options (FastMode: %v, Debug: %v)", <<>>)>>)]
         : got \in {GetBrowserlessWebSocketURL(baseURL, token)}} : TRUE

\* ConfigureBrowserlessEnvironment: PLAYWRIGHT_WS_ENDPOINT and the console
ConfigureBrowserlessEnvironment(browserWSEndpoint) ==
    IF browserWSEndpoint = <<>> THEN [url |-> <<>>, err |-> "none", log |-> <<>>]
    ELSE [url |-> browserWSEndpoint, err |-> "none",
          log |-> <<Line("Configuring Browserless connection to: %s", <<browserWSEndpoint>>)>>]

\* the file runner configures its scraper
ConfigureRunnerCall ==
    /\ pCall = "none"
    /\ \E baseURL \in BaseURLs, token \in Tokens :
          /\ pIn' = [url |-> baseURL, token |-> token]
          /\ pOut' = configureBrowserlessOptions(baseURL, token)
    /\ pCall' = "runner"
    /\ ProcUnchanged

\* the environment is configured for an endpoint
ConfigureEnvironmentCall ==
    /\ pCall = "none"
    /\ \E endpoint \in BaseURLs :
          /\ pIn' = [url |-> endpoint, token |-> <<>>]
          /\ pOut' = ConfigureBrowserlessEnvironment(endpoint)
    /\ pCall' = "environment"
    /\ ProcUnchanged

(***************************************************************************)
(* Start-up: the install runner, the lambda runner's browser set-up and    *)
(* ParseConfig.                                                            *)
(***************************************************************************)
\* the configuration and whether playwright.Install succeeds
InstallInputs == [useBrowserless : BOOLEAN, installOk : BOOLEAN]

\* installer.Run: the error and whether playwright.Install was called
installerRun(in) ==
    IF in.useBrowserless THEN [err |-> "none", installed |-> FALSE, copies |-> <<>>]
    ELSE [err |-> IF in.installOk THEN "none" ELSE "install", installed |-> TRUE, copies |-> <<>>]

\* the configuration and whether each copyDir succeeds
SetupInputs == [useBrowserless : BOOLEAN, browsersOk : BOOLEAN, driverOk : BOOLEAN]

setupBrowsersAlways(in) ==
    IF ~in.browsersOk THEN [err |-> "browsers", installed |-> FALSE, copies |-> <<"browsers">>]
    ELSE [err |-> IF in.driverOk THEN "none" ELSE "driver", installed |-> FALSE,
          copies |-> <<"browsers", "driver">>]

\* lambdaAwsRunner.setupBrowsersAndDriver: the error and the copyDir calls
setupBrowsersAndDriver(in) ==
    IF in.useBrowserless THEN [err |-> "none", installed |-> FALSE, copies |-> <<>>]
    ELSE IF ~in.browsersOk
    THEN [err |-> "browsers", installed |-> FALSE, copies |-> <<"browsers">>]
    ELSE IF ~in.driverOk
    THEN [err |-> "driver", installed |-> FALSE, copies |-> <<"browsers", "driver">>]
    ELSE [err |-> "none", installed |-> FALSE, copies |-> <<"browsers", "driver">>]

\* the install runner runs
InstallerRunCall ==
    /\ pCall = "none"
    /\ \E in \in InstallInputs :
          /\ pIn' = in
          /\ pOut' = installerRun(in)
    /\ pCall' = "install"
    /\ ProcUnchanged

\* the lambda runner sets up its browsers and driver
SetupBrowsersCall ==
    /\ pCall = "none"
    /\ \E in \in SetupInputs :
          /\ pIn' = in
          /\ pOut' = setupBrowsersAndDriver(in)
    /\ pCall' = "setup"
    /\ ProcUnchanged

\* the largest number of CPU cores of the model
MaxCores == 4

\* the -c flag: absent, or given with a value
ConcurrencyFlags ==
    {[given |-> FALSE, value |-> 0]} \cup {[given |-> TRUE, value |-> v] : v \in 0..2}

\* the Browserless settings ParseConfig validates
ParseValidateInputs ==
    {in \in ValidateInputs :
        in.parses /\ in.fallbackEnv \in {"", "true"} /\ in.disableEnv \in {"", "1"}}

\* the environment, the machine and the flags ParseConfig reads
ParseInputs ==
    [installOnly : BOOLEAN, cores : 1..MaxCores, c : ConcurrencyFlags,
     depth : {0, 10}, zoom : {15, 22}, browserless : ParseValidateInputs]

Min(a, b) == IF a < b THEN a ELSE b

\* the default of the -c flag
DefaultConcurrency(cores) == Min(cores \div 2, 1)

NoConfig == [panic |-> "none", installOnly |-> FALSE, concurrency |-> 0, useBrowserless |-> FALSE]

\* ParseConfig: the panic, if any, and the fields of the returned Config
ParseConfig(in) ==
    LET concurrency == IF in.c.given THEN in.c.value ELSE DefaultConcurrency(in.cores)
        validated == ValidateBrowserlessConfigurationWithFallback(in.browserless)
    IN  IF in.installOnly THEN [NoConfig EXCEPT !.installOnly = TRUE]
        ELSE IF concurrency < 1 THEN [NoConfig EXCEPT !.panic = "Concurrency must be greater than 0"]
        ELSE IF in.depth < 1 THEN [NoConfig EXCEPT !.panic = "MaxDepth must be greater than 0"]
        ELSE IF in.zoom < 0 \/ in.zoom > 21 THEN [NoConfig EXCEPT !.panic = "Zoom must be between 0 and 21"]
        ELSE IF in.browserless.useBrowserless /\ validated.err # "none"
        THEN [NoConfig EXCEPT !.panic = "Browserless configuration validation failed"]
        ELSE [NoConfig EXCEPT !.concurrency = concurrency,
                              !.useBrowserless = validated.useBrowserless]

\* the program parses its configuration
ParseConfigCall ==
    /\ pCall = "none"
    /\ \E in \in ParseInputs :
          /\ pIn' = in
          /\ pOut' = ParseConfig(in)
    /\ pCall' = "parse"
    /\ ProcUnchanged

(***************************************************************************)
(* webrunner.scrapeJob and the status it persists for the web job.         *)
(***************************************************************************)
\* what mate.Start returns
StartOutcomes == {"nil", "deadline", "canceled", "error"}

\* the job's keywords and seed jobs, and what the environment does: the job
\* store, os.Create, setupMate, CreateSeedJobs and mate.Start
ScrapeInputs ==
    [keywords : 0..2, updateOk : BOOLEAN, createOk : BOOLEAN, setupOk : BOOLEAN,
     seedsOk : BOOLEAN, seeds : 0..2, start : StartOutcomes]

\* the returned error, job.Status, and the status in the job store, which
\* is "pending" when scrapeJob is called
Scraped(err, status, persisted) == [err |-> err, status |-> status, persisted |-> persisted]

\* webrunner.scrapeJob
scrapeJob(in) ==
    IF ~in.updateOk THEN Scraped("update", "working", "pending")
    ELSE IF in.keywords = 0 THEN Scraped("none", "failed", "failed")
    ELSE IF ~in.createOk THEN Scraped("create", "working", "working")
    ELSE IF ~in.setupOk THEN Scraped("setup", "failed", "failed")
    ELSE IF ~in.seedsOk THEN Scraped("seeds", "working", "working")
    ELSE IF in.seeds > 0 /\ in.start = "error" THEN Scraped("start", "working", "working")
    ELSE Scraped("none", "ok", "ok")

\* the web runner scrapes one pending job
ScrapeJobCall ==
    /\ pCall = "none"
    /\ \E in \in ScrapeInputs :
          /\ pIn' = in
          /\ pOut' = scrapeJob(in)
    /\ pCall' = "scrape"
    /\ ProcUnchanged

(***************************************************************************)
(* Specification of the pipeline.                                          *)
(***************************************************************************)
ExtractIdle ==
    /\ xPc = "idle" /\ xAttempt = 0 /\ xLast = NoEval /\ xLog = <<>>
    /\ xResult = <<>> /\ xErr = FALSE /\ xSleeps = 0 /\ xEvals = 0
    /\ xCancel = FALSE

ScrollIdle ==
    /\ sPc = "idle" /\ sScript = <<>> /\ sMaxDepth = 0 /\ sI = 0 /\ sCnt = 0
    /\ sCur = 0 /\ sWait = 0 /\ sRetry = 0 /\ sEvals = 0 /\ sOk = 0
    /\ sSleeps = 0 /\ sWaits = 0 /\ sRet = <<>> /\ sErr = "none"
    /\ sCancel = FALSE /\ sCancelCnt = 0

ProcIdle == pCall = "none" /\ pIn = <<>> /\ pOut = <<>>

PipeIdle ==
    /\ run = 0 /\ pc = "idle"
    /\ runKind = "none"
    /\ runInst = [dedup |-> Nil, mon |-> Nil]
    /\ retired = {}
    /\ nextInst = 0 /\ seedCount = 0 /\ ctxDone = FALSE
    /\ mons = <<>> /\ dedups = <<>> /\ jobs = <<>>

Init == PipeIdle /\ ExtractIdle /\ ScrollIdle /\ ProcIdle

Next ==
    \/ \E n \in 0..MaxSeeds : FileRunCreate(n)
    \/ \E n \in 0..MaxSeeds : WebScrapeJobCreate(n)
    \/ \E n \in 0..MaxSeeds : LambdaHandlerCreate(n)
    \/ WebScrapeJobNoSeeds
    \/ RunSetSeedCount
    \/ RunSetCancelFunc
    \/ RunGoMonitor
    \/ RunAppStart
    \/ RunReturn
    \/ RunDeadline
    \/ \E j \in DOMAIN jobs : \E k \in 0..MaxLinks : SearchProcess(j, k)
    \/ \E j \in DOMAIN jobs : \E res \in PlaceResults : PlaceProcess(j, res)
    \/ \E j \in DOMAIN jobs : \E in \in EmailInputs : EmailProcess(j, in)
    \/ MonitorRun
    \/ MonitorInactivity

Spec == Init /\ [][Next]_vars

\* the steps of a run that the Go scheduler is bound to take; neither timer
\* (the monitor's inactivity timer, the context deadline) is among them
FairSpec ==
    /\ Spec
    /\ WF_vars(WebScrapeJobNoSeeds)
    /\ WF_vars(RunSetSeedCount)
    /\ WF_vars(RunSetCancelFunc)
    /\ WF_vars(RunGoMonitor)
    /\ WF_vars(RunAppStart)
    /\ WF_vars(MonitorRun)
    /\ WF_vars(RunReturn)

(***************************************************************************)
(* Properties of the pipeline.                                             *)
(***************************************************************************)
Monitor == mons[CurMon]

RunActive == pc \in {"created", "seeded", "cancelset", "monitoring", "started"}

AllJobsProcessed ==
    /\ DOMAIN jobs # {}
    /\ \A j \in DOMAIN jobs : jobs[j].st = "done"

\* C1: in a run with seed jobs, once every seed job and every emitted child
\* job has been processed the Completion Monitor has reached Stopped, has
\* signalled it exactly once, and completed = expected.
C1_CompletionTermination ==
    (pc = "started" /\ AllJobsProcessed) =>
        /\ Monitor.state = "Stopped"
        /\ Monitor.stops = 1
        /\ Monitor.completed = Monitor.expected

\* C2: every EmailJob a PlaceJob has emitted is counted in expected (with the
\* seed jobs and the PlaceJobs), completed never exceeds expected, and
\* completed = expected is not observed while an emitted EmailJob is queued.
C2_EmailRegisteredBeforeCompletion ==
    pc = "started" =>
        /\ Monitor.completed <= Monitor.expected
        /\ Monitor.expected >=
              seedCount + Cardinality(IdsOf("place")) + Cardinality(IdsOf("email"))
        /\ (\E e \in IdsOf("email") : jobs[e].st = "queued")
              => Monitor.completed # Monitor.expected

\* C3: every step in which a PlaceJob or an EmailExtractJob finishes
\* processing, with or without a failure, advances completed by exactly one.
C3_EveryFinishAdvancesCompleted ==
    [][\A j \in DOMAIN jobs :
          ( /\ j[1] \in {"place", "email"}
            /\ jobs[j].st = "queued"
            /\ j \in DOMAIN jobs'
            /\ jobs'[j].st = "done" )
          => mons'[CurMon].completed = mons[CurMon].completed + 1]_vars

\* C4 as stated: whenever a run with zero seed jobs has returned, its
\* Completion Monitor has signalled Stopped.
C4_ZeroSeedMonitorStopped ==
    (pc = "returned" /\ seedCount = 0) => Monitor.state = "Stopped"

\* C4 as amended: a run with zero seed jobs always returns.  In the file
\* runner the monitor has then signalled Stopped exactly once, by the
\* completion test and without any job event (expected = completed = 0); in
\* the lambda runner likewise unless the context deadline came first; the web
\* runner skips the monitor and the scraper, so its monitor is still Idle.
C4_ZeroSeedOutcome ==
    (pc = "returned" /\ seedCount = 0) =>
        /\ Monitor.expected = 0 /\ Monitor.completed = 0
        /\ CurKind = "web" =>
              Monitor.state = "Idle" /\ ~Monitor.goroutine /\ Monitor.stops = 0
        /\ CurKind = "file" =>
              Monitor.state = "Stopped" /\ Monitor.stops = 1 /\ Monitor.cause = "complete"
        /\ CurKind = "lambda" =>
              \/ Monitor.state = "Stopped" /\ Monitor.stops = 1 /\ Monitor.cause = "complete"
              \/ Monitor.state = "Running" /\ Monitor.stops = 0

C4_ZeroSeedTermination ==
    /\ []C4_ZeroSeedOutcome
    /\ \A r \in Runs : (run = r /\ pc = "created" /\ seedCount = 0)
                          ~> (run = r /\ pc = "returned")

\* a file run with zero seed jobs has returned after its monitor stopped
C4_Witness ==
    /\ pc = "returned" /\ seedCount = 0 /\ CurKind = "file"
    /\ Monitor.state = "Stopped"

InitExtract == PipeIdle /\ ExtractIdle /\ ScrollIdle /\ ProcIdle

NextExtract ==
    \/ ExtractCall
    \/ ExtractEnter
    \/ ExtractSleep
    \/ \E o \in Evaluations : ExtractAttempt(o)
    \/ ExtractGiveUp
    \/ ExtractCtxDone

SpecExtract == InitExtract /\ [][NextExtract]_vars

(***************************************************************************)
(* Properties of ExtractJSON.                                              *)
(***************************************************************************)
Failures == {"err", "nil", "marshal", "invalid"}

Returned == xPc = "returned"

\* C7: ExtractJSON evaluates the script at most 3 times; the first attempt
\* that yields valid JSON ends the call and its payload is what is
\* returned; every failed attempt but the third is followed by the next one
\* after one sleep of the fixed delay; after 3 failed attempts the call
\* returns an error and no payload.
C7_BoundedRetry ==
    /\ xEvals <= 3
    /\ xEvals = Len(xLog)
    /\ \A k \in 1..(Len(xLog) - 1) : xLog[k] \in Failures
    /\ Returned <=> (xLog # <<>> /\ xLog[Len(xLog)] = "ok")
    /\ Returned => /\ ~xErr
                   /\ xResult = <<Strip(Convert(xLast).raw)>>
                   /\ Valid(xResult[1])
                   /\ xSleeps = xEvals - 1
    /\ xPc = "failed" => /\ xErr /\ xResult = <<>>
                         /\ Len(xLog) = 3 /\ xSleeps = 2
                         /\ \A k \in 1..3 : xLog[k] \in Failures
    /\ xPc \in {"top", "sleep"} /\ xEvals > 0 => xSleeps = xEvals - 1
    /\ xPc = "eval" => xSleeps = xEvals
    /\ xPc = "top" /\ xLog # <<>> => xLog[Len(xLog)] \in Failures /\ xResult = <<>>

C7_Witness ==
    /\ Returned
    /\ xLog = <<"err", "invalid", "ok">>
    /\ xSleeps = 2

\* C8 as stated: a string, an array and an object delivery of the same
\* content return the same bytes, the ones json.Marshal gives for the
\* content.
C8_ByteIdenticalDeliveries ==
    Returned /\ xLast.t \in {"string", "array", "object"}
             /\ xLast.j \in ArrayTexts \cup ObjectTexts
        => xResult = <<Marshal(Decode(xLast.j))>>

\* C8: a string, an array and an object delivery of the same content return
\* valid JSON texts of the same value (an array or an object is serialised
\* anew, a string is returned as written); a null is never returned and
\* never ends the call early, it uses up one attempt.
C8_SameValueDeliveries ==
    /\ Returned /\ xLast.t \in {"string", "array", "object"}
        => Valid(xResult[1]) /\ Decode(xResult[1]) = Decode(xLast.j)
    /\ xLog # <<>> /\ xLast.t \in {"array", "object"} => Returned
    /\ xLog # <<>> /\ xLast.t = "nil"
        => /\ xLog[Len(xLog)] = "nil"
           /\ xResult = <<>>
           /\ xPc \in {"top", "sleep", "eval", "failed"}
           /\ xAttempt = Len(xLog)
           /\ xPc = "failed" => Len(xLog) = maxRetries

C8_Witness ==
    /\ Returned
    /\ xLog = <<"nil", "ok">>
    /\ xLast.t = "string" /\ xLast.j = TObjUnsorted
    /\ xResult # <<Marshal(Decode(TObjUnsorted))>>

InitScroll == PipeIdle /\ ExtractIdle /\ ScrollIdle /\ ProcIdle

NextScroll ==
    \/ ScrollStart
    \/ ScrollRound
    \/ ScrollExhausted
    \/ ScrollEvaluateError
    \/ ScrollBackoff
    \/ \E kind \in ValueKinds : ScrollEvaluate(kind)
    \/ ScrollCancelled
    \/ ScrollWait
    \/ ScrollCtxDone

SpecScroll == InitScroll /\ [][NextScroll]_vars

\* the steps of the paginator's own goroutine: page.Evaluate, time.Sleep and
\* page.WaitForTimeout all return
ScrollStep ==
    \/ ScrollRound
    \/ ScrollExhausted
    \/ ScrollEvaluateError
    \/ ScrollBackoff
    \/ \E kind \in ValueKinds : ScrollEvaluate(kind)
    \/ ScrollCancelled
    \/ ScrollWait

(***************************************************************************)
(* Properties of scrollWithBrowserless.                                    *)
(***************************************************************************)
\* the height of the round before round k; before the first round it is
\* the zero value of currentScrollHeight
Previous(script, k) == IF k = 1 THEN 0 ELSE script[k - 1]

\* the first round whose height is that of the round before, or depth
StopRound(script, depth) ==
    IF \E k \in 1..depth : script[k] = Previous(script, k)
    THEN CHOOSE k \in 1..depth :
            /\ script[k] = Previous(script, k)
            /\ \A m \in 1..(k - 1) : script[m] # Previous(script, m)
    ELSE depth

ScrollDone == sPc = "returned" /\ sErr = "none"

\* C10 as stated: on the heights 100, 250, 250 the paginator performs
\* exactly 2 scroll rounds and reports 2.
C10_TwoRoundsOnRepeat ==
    ScrollDone /\ sScript = <<100, 250, 250>> /\ sMaxDepth >= 3
        => sCnt = 2 /\ sOk = 2 /\ sRet = <<2>>

\* C10: the paginator stops with the first round that returns the height
\* of the round before and reports the number of rounds performed, that
\* round included: on the heights 100, 250, 250 it performs exactly 3
\* scroll rounds and reports 3.
C10_StopsOnRepeat ==
    /\ ScrollDone
        => /\ sRet = <<sCnt>>
           /\ sCnt = sOk
           /\ sCnt = StopRound(sScript, sMaxDepth)
    /\ ScrollDone /\ sScript = <<100, 250, 250>> /\ sMaxDepth >= 3
        => sCnt = 3 /\ sOk = 3 /\ sRet = <<3>>
    /\ sPc \notin {"idle", "returned"}
        => \A k \in 1..sI : sScript[k] # Previous(sScript, k)

C10_Witness ==
    /\ ScrollDone
    /\ sScript = <<100, 250, 250>> /\ sMaxDepth = 3
    /\ sCur = 250 /\ sRet = <<3>> /\ sWaits = 2

\* the first depth heights of the script grow strictly
StrictlyIncreasing(script, depth) ==
    \A k \in 1..depth : script[k] > Previous(script, k)

C11_BoundedRounds ==
    /\ sCnt <= sMaxDepth /\ sOk <= sCnt /\ sI <= sMaxDepth
    /\ sEvals <= scrollRetries * sCnt
    /\ ScrollDone /\ sMaxDepth = 5 /\ StrictlyIncreasing(sScript, 5)
        => sCnt = 5 /\ sOk = 5 /\ sRet = <<5>>

\* the steps the paginator has left at most, were every round to use all
\* its retries
StepsLeft ==
    IF sPc = "returned" THEN 0
    ELSE IF sPc = "idle" THEN 10 * (MaxLongDepth + 2)
    ELSE 10 * (sMaxDepth - sI)
         + (IF sPc = "top" THEN 9
            ELSE IF sPc = "eval" THEN 8 - 2 * sRetry
            ELSE IF sPc = "backoff" THEN 7 - 2 * sRetry
            ELSE 3)

\* C11: whatever the heights, the paginator starts at most maxDepth rounds
\* and returns: it always has a next step until it has returned, and every
\* step brings the return nearer; on heights that grow with every scroll
\* and maxDepth = 5 it performs exactly 5 rounds and reports 5.
C11_ScrollTerminates ==
    /\ []C11_BoundedRounds
    /\ [](sPc \notin {"idle", "returned"} => StepsLeft > 0 /\ ENABLED ScrollStep)
    /\ [][ScrollStep => StepsLeft' < StepsLeft]_vars

C11_Witness ==
    /\ ScrollDone
    /\ sMaxDepth = 5 /\ StrictlyIncreasing(sScript, 5)
    /\ sCnt = 5 /\ sRet = <<5>> /\ sCur = 500

\* evaluations of the current round that failed
FailedInRound == sRetry + (IF sPc = "backoff" THEN 1 ELSE 0)

C12_RetryInvariant ==
    /\ sRetry <= 3
    /\ sPc \in {"eval", "backoff"} => sRetry <= 2
    /\ sPc \notin {"idle", "returned"} => FailedInRound <= 2
    /\ sEvals - sOk = sSleeps + (IF sPc = "backoff" THEN 1 ELSE 0)
                              + (IF sErr = "eval" THEN 1 ELSE 0)
    /\ sErr = "eval" => /\ sPc = "returned"
                        /\ sRetry = 3
                        /\ sSleeps >= 2
                        /\ sRet = <<sCnt>>
                        /\ sCnt = sOk + 1

\* C12: within a round a failing evaluation is tried 3 times at most, with
\* one sleep of the fixed backoff after the first and after the second
\* failure; an evaluation that succeeds, on whichever attempt, goes on to
\* the height check as a first-attempt success does; the fatal error is
\* returned only upon the third failure of a round, and nothing runs after
\* it.
C12_RetryWithinRound ==
    /\ []C12_RetryInvariant
    /\ [][sPc = "eval" /\ sOk' = sOk + 1
            => /\ sPc' \in {"select", "returned"}
               /\ sErr' \in {"none", "type"}
               /\ sCnt' = sCnt /\ sSleeps' = sSleeps
               /\ sPc' = "select" => sCur' = sScript[sOk'] /\ sCur' # sCur]_vars
    /\ [][sPc = "eval" /\ sEvals' = sEvals + 1 /\ sOk' = sOk
            => IF sRetry < 2 THEN sPc' = "backoff" /\ sErr' = "none"
               ELSE sPc' = "returned" /\ sErr' = "eval"]_vars
    /\ [][sPc = "returned" => UNCHANGED scrollVars]_vars

C12_Witness ==
    /\ sPc = "select"
    /\ sRetry = 2 /\ sSleeps = 2 /\ sEvals = 3 /\ sOk = 1

ScrollStarted == sPc # "idle" /\ sErr # "element"

C13_WaitBounds ==
    ScrollStarted
        => /\ sWait >= 200 * WaitScale
           /\ sWait <= 3000 * WaitScale
           /\ sWaits = 0 => sWait = 200 * WaitScale
           /\ sWaits = sI

\* C13: waitTime is the base value (200 ms) in the first round, never
\* shrinks, becomes 1.3 times itself after every round until that would
\* pass the maximum, and is never more than the maximum (3000 ms).
C13_WaitGrowth ==
    /\ []C13_WaitBounds
    /\ [][sPc # "idle" /\ sWaits' = sWaits + 1
            => /\ sWait' >= sWait
               /\ \/ sWait' = 3000 * WaitScale /\ 13 * sWait > 10 * sWait'
                  \/ 10 * sWait' <= 13 * sWait /\ 10 * sWait' > 13 * sWait - 10]_vars
    /\ [][sPc # "idle" /\ sWaits' = sWaits => sWait' = sWait]_vars

C13_Witness ==
    /\ sPc = "eval"
    /\ sWaits = 11
    /\ sWait = 3000 * WaitScale

\* C14 as stated: once ctx is done no further scroll round is started.
C14_NoRoundAfterCancel == [][sCancel => sCnt' = sCnt]_vars

C14_CancelInvariant ==
    /\ sCancel => sCnt <= sCancelCnt + 1
    /\ sCancel /\ sPc = "top" => sCnt = sCancelCnt
    /\ sErr = "ctx" => /\ sPc = "returned" /\ sCancel
                       /\ sRet = <<sCur>>
                       /\ sOk >= 1 /\ sCur = sScript[sOk]

\* C14: the paginator looks at ctx once in every round, after the round
\* has returned a new height and before the wait between rounds: with ctx
\* done it then returns the height reached so far and ctx's error, without
\* waiting and without another round.  A ctx that becomes done later in a
\* round is seen by the check of the next round, so that at most one more
\* round is started after it.
C14_CancelCheckedEachRound ==
    /\ []C14_CancelInvariant
    /\ [][sPc = "select" /\ sCancel /\ sPc' # sPc
            => /\ sPc' = "returned" /\ sErr' = "ctx" /\ sRet' = <<sCur>>
               /\ sWaits' = sWaits /\ sCnt' = sCnt /\ sEvals' = sEvals]_vars
    /\ [][sWaits' # sWaits \/ sI' # sI => sPc = "select" /\ ~sCancel]_vars

C14_Witness ==
    /\ sPc = "returned" /\ sErr = "ctx"
    /\ sCnt = sCancelCnt + 1
    /\ sCnt = 2 /\ sRet = <<250>>

\* C15: with ctx done, ExtractJSON waiting between attempts makes no
\* further attempt, and the paginator waiting between evaluation retries
\* or between rounds makes no further evaluation.
C15_CancelAtSuspensionPoints ==
    /\ [][xCancel /\ xPc = "sleep" => xPc' # "eval"]_vars
    /\ [][sCancel /\ sPc = "backoff" => sPc' # "eval"]_vars
    /\ [][sCancel /\ sPc = "top" => sPc' # "eval"]_vars

(***************************************************************************)
(* Specification of the Process calls: one Place job, then its Email job.  *)
(***************************************************************************)
InitProcess == PipeIdle /\ ExtractIdle /\ ScrollIdle /\ ProcIdle

NextProcess ==
    \/ PlaceJobCall
    \/ EmailJobCall

SpecProcess == InitProcess /\ [][NextProcess]_vars

(***************************************************************************)
(* Properties of the Process calls.                                        *)
(***************************************************************************)
PlaceReturned == pCall = "place" /\ ~pOut.err

EmailReturned == pCall = "email"

\* C16: PlaceJob.Process returns at most one child; a child is an Email
\* job and is returned only when email extraction is on and the entry's
\* website is valid for it; EmailExtractJob.Process returns no child.
C16_FanOut ==
    /\ pCall = "place"
        => /\ Len(pOut.children) <= 1
           /\ pOut.err => pOut.children = <<>>
           /\ pOut.children # <<>>
                => /\ pOut.children[1].kind = "email"
                   /\ pIn.job.extractEmail
                   /\ pIn.resp.raw.website \notin {<<>>, Social}
                   /\ pOut.children[1].url = pIn.resp.raw.website
    /\ pCall = "email" => pOut.children = <<>>

C16_Witness ==
    /\ pCall = "email"
    /\ pIn.job.kind = "email" /\ pIn.job.url = <<"w">>
    /\ ~pIn.resp.fetchErr /\ pIn.resp.docOk
    /\ pOut.entry.emails = <<"e1">>

\* C17: an Entry that PlaceJob.Process returns has a link: the payload's
\* link if it has one, else the job's full URL.
C17_LinkNeverEmpty ==
    PlaceReturned
        => /\ pOut.hasEntry
           /\ pOut.entry.link # <<>>
           /\ pIn.resp.raw.link # <<>> => pOut.entry.link = pIn.resp.raw.link
           /\ pIn.resp.raw.link = <<>>
                => pOut.entry.link = pIn.job.url \o <<"?", "h", "l", "=", "e", "n">>
           /\ \A k \in 1..Len(pOut.children) :
                pOut.children[k].entry.link = pOut.entry.link

C17_Witness ==
    /\ PlaceReturned
    /\ pIn.resp.raw.link = <<>>
    /\ pOut.entry.link = <<"u", "?", "h", "l", "=", "e", "n">>

\* the Email job's call met a failed fetch or a document it cannot use
EmailFailed == pCall = "email" /\ (pIn.resp.fetchErr \/ ~pIn.resp.docOk)

\* C18: when the website fetch failed or the document is unusable,
\* EmailExtractJob.Process returns the Entry it was given, emails
\* included, and no error.
C18_EmailFailureKeepsEntry ==
    EmailFailed
        => /\ ~pOut.err
           /\ pOut.hasEntry
           /\ pOut.entry = pIn.job.entry
           /\ pOut.entry.emails = pIn.job.entry.emails
           /\ pOut.entry.link # <<>>

C18_Witness ==
    /\ EmailFailed
    /\ pIn.resp.fetchErr
    /\ pIn.job.entry.emails = <<"e0">>
    /\ pOut.entry.emails = <<"e0">>

\* the call went as far as fetching extra reviews
ReviewsFetched ==
    /\ PlaceReturned
    /\ pIn.job.extraReviews /\ pIn.resp.raw.reviewCount > 8 /\ pIn.resp.docIsPage

\* C19: on either review path the reviews of a fetch that succeeded are
\* appended to the Entry once each and in fetch order; a fetch that failed
\* leaves the reviews as they were and the call returns no error.
C19_ReviewsAppended ==
    ReviewsFetched
        => /\ ~pOut.err
           /\ pOut.entry.reviews =
                IF pIn.resp.fetch.err THEN pIn.resp.raw.reviews
                ELSE pIn.resp.raw.reviews \o pIn.resp.fetch.reviews

\* what holds of the two review paths: the ReviewsLimit # 0 path appends,
\* the ReviewsLimit = 0 path leaves the Entry as it was
C19_ScrollPathAppends ==
    ReviewsFetched
        => pOut.entry.reviews =
             IF pIn.resp.fetch.err \/ pIn.job.reviewsLimit = 0
             THEN pIn.resp.raw.reviews
             ELSE pIn.resp.raw.reviews \o pIn.resp.fetch.reviews

(***************************************************************************)
(* Specification of the configuration check: one call on any input.        *)
(***************************************************************************)
InitConfig == PipeIdle /\ ExtractIdle /\ ScrollIdle /\ ProcIdle

NextConfig ==
    \/ ValidateCall
    \/ FallbackCall
    \/ InstallerRunCall
    \/ SetupBrowsersCall
    \/ ParseConfigCall

SpecConfig == InitConfig /\ [][NextConfig]_vars

\* Browserless is on, the URL is well-formed, the endpoint is unreachable
Unreachable ==
    /\ pCall = "validate"
    /\ pIn.useBrowserless
    /\ pIn.url \in {<<"w", "s", ":", "/", "/", "h">>, <<"w", "s", "s", ":", "/", "/", "h">>} /\ pIn.parses
    /\ ~pIn.reachable

FallbackAllowed ==
    /\ pIn.fallbackEnv \in {"true", "1"}
    /\ pIn.disableEnv \notin {"true", "1"}

MalformedURL ==
    /\ pCall = "validate"
    /\ pIn.useBrowserless
    /\ \/ pIn.url = <<>>
       \/ /\ ~HasPrefix(pIn.url, <<"w", "s", ":", "/", "/">>)
          /\ ~HasPrefix(pIn.url, <<"w", "s", "s", ":", "/", "/">>)

InitURL == PipeIdle /\ ExtractIdle /\ ScrollIdle /\ ProcIdle

NextURL ==
    \/ BuildURLCall
    \/ ConfigureRunnerCall
    \/ ConfigureEnvironmentCall

SpecURL == InitURL /\ [][NextURL]_vars

\* the base URL is empty, unparseable or has a scheme other than ws and wss
BadBaseURL ==
    \/ pIn.url = <<>>
    \/ ~Parse(pIn.url).ok
    \/ Parse(pIn.url).scheme \notin {ws, wss}

\* the returned URL has the token as its token query parameter
CarriesToken ==
    LET values == ParseQuery(Cut(pOut.url, "?").after)
    IN  Has(values, TokenKey) /\ Get(values, TokenKey) = pIn.token

\* C22: BuildBrowserlessWebSocketURL returns an error and an empty URL when
\* the base URL is empty, unparseable or not of scheme ws or wss; otherwise
\* it returns a URL that starts with the base URL and that carries the token
\* as its token query parameter exactly when the token is non-empty.
C22_BuiltURL ==
    pCall = "build"
        => IF BadBaseURL
           THEN pOut.err # "none" /\ pOut.url = <<>>
           ELSE /\ pOut.err = "none"
                /\ HasPrefix(pOut.url, pIn.url)
                /\ CarriesToken <=> pIn.token # <<>>

\* the tokens of a call: the one passed separately and the one embedded in
\* the endpoint URL
Secrets ==
    {pIn.token, Get(ParseQuery(Cut(pIn.url, "?").after), TokenKey)} \ {<<>>}

\* a line shows a secret, raw or URL-encoded, in one of its arguments
Shows(line, secret) ==
    \E i \in 1..Len(line.args) :
        Contains(line.args[i], secret) \/ Contains(line.args[i], QueryEscape(secret))

\* C23: no line logged while building the WebSocket URL, configuring a
\* runner or configuring the Browserless environment contains the token,
\* raw or URL-encoded, whether the token is passed separately or embedded in
\* the endpoint URL.
C23_TokenNeverLogged ==
    pCall \in {"build", "runner", "environment"}
        => \A i \in 1..Len(pOut.log) : \A secret \in Secrets : ~Shows(pOut.log[i], secret)

\* C24: with UseBrowserless true the install runner's Run and the lambda
\* runner's setupBrowsersAndDriver return nil without installing Playwright
\* and without copying a directory; with UseBrowserless false Run calls the
\* installation, and setupBrowsersAndDriver copies the browsers and then,
\* unless that copy failed, the driver.
C24_NoLocalBrowserWithBrowserless ==
    /\ pCall = "install"
          => IF pIn.useBrowserless
             THEN pOut.err = "none" /\ ~pOut.installed
             ELSE pOut.installed /\ (pOut.err = "none" <=> pIn.installOk)
    /\ pCall = "setup"
          => IF pIn.useBrowserless
             THEN pOut.err = "none" /\ pOut.copies = <<>>
             ELSE /\ pOut.copies = IF pIn.browsersOk THEN <<"browsers", "driver">>
                                   ELSE <<"browsers">>
                  /\ pOut.err = "none" <=> (pIn.browsersOk /\ pIn.driverOk)

C24_Witness ==
    /\ pCall = "setup"
    /\ pIn.useBrowserless /\ ~pIn.browsersOk
    /\ pOut.err = "none" /\ pOut.copies = <<>>

\* C25: without the -c flag ParseConfig sets the concurrency to half the
\* number of CPU cores and does not panic, whatever the number of cores.
C25_DefaultConcurrency ==
    (pCall = "parse" /\ ~pIn.installOnly /\ ~pIn.c.given)
        => /\ pOut.panic # "Concurrency must be greater than 0"
           /\ pOut.panic = "none"
                 => /\ pOut.concurrency >= 1
                    /\ pIn.cores >= 2 => pOut.concurrency = pIn.cores \div 2

(***************************************************************************)
(* The web job: one scrapeJob call per behaviour.                          *)
(***************************************************************************)
InitWeb == PipeIdle /\ ExtractIdle /\ ScrollIdle /\ ProcIdle

NextWeb ==
    \/ ScrapeJobCall

SpecWeb == InitWeb /\ [][NextWeb]_vars

\* C26: after scrapeJob returns on any of the paths no keywords, scraper
\* set-up failure, seed-job creation failure, scraper start failure, timeout
\* and success, the status persisted for the job is OK or Failed, never
\* Working.
C26_StatusSettled ==
    (pCall = "scrape" /\ pIn.updateOk /\ pIn.createOk)
        => pOut.persisted \in {"ok", "failed"}

(***************************************************************************)
(* Further properties of the Process calls, under SpecProcess.             *)
(***************************************************************************)
\* the records the writer has received for the place of the current call
WrittenRecords ==
    IF pCall = "place" THEN Written(PlaceUseInResults(pIn.job), pOut)
    ELSE Written(PlaceUseInResults(pIn.parent.job), pIn.parent.out)
             \o Written(EmailUseInResults(pIn.job), pOut)

\* C27: a processed place yields exactly one Entry record to the writer:
\* when the Place job returned an Email job the Entry is written once, by
\* the Email job's result, and not as the Place job's own result.
C27_OneRecordPerPlace ==
    /\ (PlaceReturned /\ pOut.children = <<>>) => Len(WrittenRecords) = 1
    /\ EmailReturned
          => /\ Written(PlaceUseInResults(pIn.parent.job), pIn.parent.out) = <<>>
             /\ WrittenRecords = <<pOut.entry>>

\* C28: PlaceJob.Process returns an Email job exactly when email extraction
\* is on and the Entry's website is valid for it, whether review extraction
\* ran, was skipped because the document is not a browser page, or failed.
C28_EmailIndependentOfReviews ==
    PlaceReturned
        => (pOut.children # <<>>
               <=> (pIn.job.extractEmail /\ IsWebsiteValidForEmail(pOut.entry)))

\* the navigation to the website failed and the page content was read
NavigationRecovered ==
    /\ EmailReturned
    /\ pIn.resp.nav = "failed" /\ pIn.resp.body = "mail"

\* C29: when the navigation to the business website fails and the page
\* content can still be read, the emails in that content end up in the
\* Entry's emails.
C29_RecoveredContentUsed ==
    NavigationRecovered
        => \A k \in 1..Len(pIn.resp.bodyEmails) :
              \E m \in 1..Len(pOut.entry.emails) : pOut.entry.emails[m] = pIn.resp.bodyEmails[k]

(***************************************************************************)
(* The wiring of the Completion Monitor, under Spec.                       *)
(***************************************************************************)
\* the monitor has its seed count and its cancel function
Wired(m) == mons[m].state # "Idle" /\ mons[m].cancelSet

\* C30: in every runner the seed count is set and the cancel function is
\* installed before the monitor's goroutine is started and before the
\* scraper is started, so a monitor that runs, or that has seen a job
\* complete, has both.
C30_MonitorWiredFirst ==
    /\ pc \in {"monitoring", "started"} => Wired(runInst.mon)
    /\ \A m \in DOMAIN mons :
          (mons[m].goroutine \/ mons[m].completed > 0 \/ mons[m].state = "Stopped")
              => Wired(m)

C30_Witness ==
    /\ pc = "started" /\ runKind = "web"
    /\ mons[runInst.mon].goroutine
    /\ mons[runInst.mon].completed > 0
    /\ Wired(runInst.mon)

====
